---- MODULE Spec2Model ----
(***************************************************************************)
(* Formula extraction and normalisation pipeline of the RAG system:        *)
(*   rag_system/latex_normalizer.py         (normalize_latex and passes)   *)
(*   rag_system/vector_formula_extractor.py (gate, marker injection,       *)
(*                                           vision adapter, resolver)     *)
(*   rag_system/parser.py, pipeline.py      (parse_pdf, ingest_pdf)        *)
(*                                                                         *)
(* Strings are sequences of one-character strings, so that every regular   *)
(* expression and every str method is computed position by position.       *)
(*                                                                         *)
(* Three specifications share the variables:                               *)
(*   Spec        one ingest_pdf call over a bounded document               *)
(*   SpecNorm    normalize_latex applied once and twice to bounded inputs  *)
(*   SpecResolve replace_markers_with_latex on bounded (text, formulas)    *)
(***************************************************************************)
EXTENDS Integers, Sequences, FiniteSets, TLC

\* ------------------------------------------------------------------------
\* Characters and Python str / re primitives
\* ------------------------------------------------------------------------

Lower ==
    {"a","b","c","d","e","f","g","h","i","j","k","l","m",
     "n","o","p","q","r","s","t","u","v","w","x","y","z"}

Upper ==
    {"A","B","C","D","E","F","G","H","I","J","K","L","M",
     "N","O","P","Q","R","S","T","U","V","W","X","Y","Z"}

Digits ==
    {"0","1","2","3","4","5","6","7","8","9"}

\* \s of the re module, restricted to the whitespace the model's inputs use
IsSpace(c) ==
    c \in {" ", "\n", "\t"}

\* [a-zA-Z]
IsAlpha(c) ==
    c \in Lower \cup Upper

\* [a-zA-Z0-9]
IsAlnum(c) ==
    c \in Lower \cup Upper \cup Digits

\* \w of the re module
IsWord(c) ==
    IsAlnum(c) \/ c = "_"

BS ==
    "\\"

\* the grave accent of a code fence: SANY cannot read that character inside
\* a string, so this symbol stands for it as one character of a string
GRAVE ==
    "<grave>"

\* p occurs in s starting at position i (1-based)
StartsAt(s, i, p) ==
    /\ i >= 1
    /\ i + Len(p) - 1 <= Len(s)
    /\ SubSeq(s, i, i + Len(p) - 1) = p

\* str.__contains__: p in s
Contains(s, p) ==
    \E i \in 1..(Len(s) + 1) : StartsAt(s, i, p)

\* [^()]
NotParen(c) ==
    c \notin {"(", ")"}

\* [^)]
NotRParen(c) ==
    c # ")"

\* \d
IsDigit(c) ==
    c \in Digits

\* the character classes of the patterns, by name
InClass(class, c) ==
    CASE class = "space" -> IsSpace(c)
      [] class = "alpha" -> IsAlpha(c)
      [] class = "alnum" -> IsAlnum(c)
      [] class = "digit" -> IsDigit(c)
      [] class = "not_paren" -> NotParen(c)
      [] class = "not_rparen" -> NotRParen(c)
      [] class = "space_bs" -> IsSpace(c) \/ c = BS

\* length of the maximal run of characters of a class that starts at i
RunLen(s, i, class) ==
    LET RECURSIVE run(_)
        run(j) == IF j <= Len(s) /\ InClass(class, s[j]) THEN 1 + run(j + 1) ELSE 0
    IN  run(i)

\* re.sub(pattern, repl, s): scan left to right; at each position i the
\* pattern either matches lens[i] > 0 characters, which are replaced by
\* repls[i] and skipped, or the character is copied.  No pattern of the
\* program matches the empty string.
ReSub(s, lens, repls) ==
    LET RECURSIVE out(_)
        out(i) ==
            IF i > Len(s) THEN <<>>
            ELSE LET k == lens[i]
                 IN  IF k > 0 THEN repls[i] \o out(i + k)
                     ELSE <<s[i]>> \o out(i + 1)
    IN  out(1)

\* str.replace(old, new) and re.sub of a literal pattern
Replace(s, old, new) ==
    LET M(t, i) == IF StartsAt(t, i, old) THEN Len(old) ELSE 0
        R(t, i, k) == new
    IN  ReSub(s,
              [i \in 1..Len(s) |-> M(s, i)],
              [i \in 1..Len(s) |->
                  IF M(s, i) > 0 THEN R(s, i, M(s, i)) ELSE <<>>])

RECURSIVE lstrip(_)
lstrip(s) ==
    IF s # <<>> /\ IsSpace(Head(s)) THEN lstrip(Tail(s)) ELSE s

RECURSIVE rstrip(_)
rstrip(s) ==
    IF s # <<>> /\ IsSpace(s[Len(s)]) THEN rstrip(SubSeq(s, 1, Len(s) - 1)) ELSE s

\* str.strip()
strip(s) ==
    rstrip(lstrip(s))

RECURSIVE lstripChar(_, _)
lstripChar(s, c) ==
    IF s # <<>> /\ Head(s) = c THEN lstripChar(Tail(s), c) ELSE s

RECURSIVE rstripChar(_, _)
rstripChar(s, c) ==
    IF s # <<>> /\ s[Len(s)] = c THEN rstripChar(SubSeq(s, 1, Len(s) - 1), c) ELSE s

\* str.strip(c) for a one-character argument
stripChar(s, c) ==
    rstripChar(lstripChar(s, c), c)

\* the last of a sequence of intermediate results: TLC evaluates the
\* components of the tuple in order, as Python executes the statements
Last(steps) ==
    steps[Len(steps)]

\* concatenation of a sequence of strings
RECURSIVE Flatten(_)
Flatten(ss) ==
    IF ss = <<>> THEN <<>> ELSE Head(ss) \o Flatten(Tail(ss))

\* all sequences over S of length at most n
SeqsUpTo(S, n) ==
    UNION {[1..k -> S] : k \in 0..n}

\* ------------------------------------------------------------------------
\* latex_normalizer.py
\* ------------------------------------------------------------------------

\* re.sub(r'^\$\$?|\$\$?$', '', normalized): the first alternative only at
\* the start, the second only where "$" or "$$" ends the string
StripDelimiters(s) ==
    LET n == Len(s)
        M(t, i) ==
            IF i = 1 /\ t[1] = "$"
            THEN (IF n >= 2 /\ t[2] = "$" THEN 2 ELSE 1)
            ELSE IF t[i] = "$" /\ i + 1 = n /\ t[n] = "$" THEN 2
            ELSE IF t[i] = "$" /\ i = n THEN 1
            ELSE 0
        R(t, i, k) == <<>>
    IN  ReSub(s,
              [i \in 1..Len(s) |-> M(s, i)],
              [i \in 1..Len(s) |->
                  IF M(s, i) > 0 THEN R(s, i, M(s, i)) ELSE <<>>])

\* re.sub(r'\s+', ' ', normalized)
CollapseWhitespace(s) ==
    LET M(t, i) == RunLen(t, i, "space")
        R(t, i, k) == <<" ">>
    IN  ReSub(s,
              [i \in 1..Len(s) |-> M(s, i)],
              [i \in 1..Len(s) |->
                  IF M(s, i) > 0 THEN R(s, i, M(s, i)) ELSE <<>>])

Frac(num, den) ==
    <<BS, "f", "r", "a", "c", "{">> \o num \o <<"}", "{">> \o den \o <<"}">>

\* a fraction pattern whose operands are letters only
SingleFractionMatchLetters(t, i) ==
    IF /\ i + 2 <= Len(t)
       /\ IsAlpha(t[i])
       /\ t[i + 1] = "/"
       /\ IsAlpha(t[i + 2])
       /\ (i = 1 \/ ~(t[i - 1] = BS \/ IsAlpha(t[i - 1])))
       /\ (i + 3 > Len(t) \/ ~IsAlpha(t[i + 3]))
    THEN 3 ELSE 0

\* r'(?<![\\a-zA-Z])([a-zA-Z0-9])/([a-zA-Z0-9])(?![a-zA-Z])'
SingleFractionMatch(t, i) ==
    IF /\ i + 2 <= Len(t)
       /\ IsAlnum(t[i])
       /\ t[i + 1] = "/"
       /\ IsAlnum(t[i + 2])
       /\ (i = 1 \/ ~(t[i - 1] = BS \/ IsAlpha(t[i - 1])))
       /\ (i + 3 > Len(t) \/ ~IsAlpha(t[i + 3]))
    THEN 3 ELSE 0

\* r'\(([^()]+)\)/\(([^()]+)\)'
ParenFractionMatch(t, i) ==
    LET a == RunLen(t, i + 1, "not_paren")
        b == RunLen(t, i + a + 4, "not_paren")
    IN  IF /\ t[i] = "("
           /\ a >= 1
           /\ StartsAt(t, i + 1 + a, <<")", "/", "(">>)
           /\ b >= 1
           /\ StartsAt(t, i + a + 4 + b, <<")">>)
        THEN a + b + 5 ELSE 0

_normalize_fractions(latex) ==
    LET R1(t, i, k) == Frac(<<t[i]>>, <<t[i + 2]>>)
        result1 == ReSub(latex,
                         [i \in 1..Len(latex) |-> SingleFractionMatch(latex, i)],
                         [i \in 1..Len(latex) |->
                             IF SingleFractionMatch(latex, i) > 0 THEN R1(latex, i, SingleFractionMatch(latex, i)) ELSE <<>>])
        R2(t, i, k) ==
            LET a == RunLen(t, i + 1, "not_paren")
            IN  Frac(SubSeq(t, i + 1, i + a), SubSeq(t, i + a + 4, i + k - 2))
        result2 == ReSub(result1,
                         [i \in 1..Len(result1) |-> ParenFractionMatch(result1, i)],
                         [i \in 1..Len(result1) |->
                             IF ParenFractionMatch(result1, i) > 0 THEN R2(result1, i, ParenFractionMatch(result1, i)) ELSE <<>>])
    IN  Last(<<result1, result2>>)

\* a name pattern without the word boundaries: any occurrence not preceded
\* by "\"
WordMatchAnywhere(t, i, name) ==
    IF /\ StartsAt(t, i, name)
       /\ (i = 1 \/ t[i - 1] # BS)
    THEN Len(name) ELSE 0

\* r'(?<!\\)\b' + name + r'\b': name is a whole word not preceded by "\"
WordMatch(t, i, name) ==
    IF /\ StartsAt(t, i, name)
       /\ (i = 1 \/ (t[i - 1] # BS /\ ~IsWord(t[i - 1])))
       /\ (i + Len(name) > Len(t) \/ ~IsWord(t[i + Len(name)]))
    THEN Len(name) ELSE 0

\* re.sub(r'(?<!\\)\b' + name + r'\b', lambda m: repl, s)
SubWord(s, name, repl) ==
    LET M(t, i) == WordMatch(t, i, name)
        R(t, i, k) == repl
    IN  ReSub(s,
              [i \in 1..Len(s) |-> M(s, i)],
              [i \in 1..Len(s) |->
                  IF M(s, i) > 0 THEN R(s, i, M(s, i)) ELSE <<>>])

functions ==
    << <<"s","i","n">>, <<"c","o","s">>, <<"t","a","n">>, <<"c","o","t">>,
       <<"s","e","c">>, <<"c","s","c">>,
       <<"s","i","n","h">>, <<"c","o","s","h">>, <<"t","a","n","h">>,
       <<"c","o","t","h">>,
       <<"a","r","c","s","i","n">>, <<"a","r","c","c","o","s">>,
       <<"a","r","c","t","a","n">>,
       <<"a","s","i","n">>, <<"a","c","o","s">>, <<"a","t","a","n">>,
       <<"l","o","g">>, <<"l","n">>, <<"e","x","p">>, <<"l","g">>,
       <<"l","i","m">>, <<"m","a","x">>, <<"m","i","n">>, <<"s","u","p">>,
       <<"i","n","f">>,
       <<"d","e","t">>, <<"d","i","m">>, <<"k","e","r">>, <<"d","e","g">>,
       <<"g","c","d">>, <<"l","c","m">>, <<"m","o","d">>,
       <<"a","r","g">>, <<"s","g","n">>, <<"a","b","s">> >>

RECURSIVE EscapeWords(_, _, _)
EscapeWords(s, names, k) ==
    IF k > Len(names) THEN s
    ELSE LET result == SubWord(s, names[k], <<BS>> \o names[k])
         IN  IF result = result THEN EscapeWords(result, names, k + 1) ELSE result

_normalize_functions(latex) ==
    EscapeWords(latex, functions, 1)

\* re.sub of the literal operator spellings, in the order of the source
_normalize_operators(latex) ==
    LET r1  == Replace(latex, <<"*">>, <<" ",BS,"c","d","o","t"," ">>)
        r2  == Replace(r1, <<">","=">>, <<BS,"g","e","q">>)
        r3  == Replace(r2, <<"<","=">>, <<BS,"l","e","q">>)
        r4  == Replace(r3, <<"!","=">>, <<BS,"n","e","q">>)
        r5  == Replace(r4, <<"~","=">>, <<BS,"a","p","p","r","o","x">>)
        r6  == Replace(r5, <<"-",">">>, <<BS,"r","i","g","h","t","a","r","r","o","w">>)
        r7  == Replace(r6, <<"<","-">>, <<BS,"l","e","f","t","a","r","r","o","w">>)
        r8  == Replace(r7, <<"=",">">>, <<BS,"R","i","g","h","t","a","r","r","o","w">>)
        \* r'\binfinity\b': a whole word, a preceding "\" allowed
        M9(t, i) ==
            LET w == <<"i","n","f","i","n","i","t","y">>
            IN  IF /\ StartsAt(t, i, w)
                   /\ (i = 1 \/ ~IsWord(t[i - 1]))
                   /\ (i + Len(w) > Len(t) \/ ~IsWord(t[i + Len(w)]))
                THEN Len(w) ELSE 0
        R9(t, i, k) == <<BS,"i","n","f","t","y">>
        r9  == ReSub(r8,
                     [i \in 1..Len(r8) |-> M9(r8, i)],
                     [i \in 1..Len(r8) |->
                         IF M9(r8, i) > 0 THEN R9(r8, i, M9(r8, i)) ELSE <<>>])
        r10 == Replace(r9, <<"+","/","-">>, <<BS,"p","m">>)
        r11 == Replace(r10, <<"-","/","+">>, <<BS,"m","p">>)
    IN  Last(<<r1, r2, r3, r4, r5, r6, r7, r8, r9, r10, r11>>)

\* r'(?<!\\)' + name + r'\(([^)]+)\)' with name( given as head
RootMatch(t, i, head) ==
    LET a == RunLen(t, i + Len(head), "not_rparen")
    IN  IF /\ StartsAt(t, i, head)
           /\ (i = 1 \/ t[i - 1] # BS)
           /\ a >= 1
           /\ StartsAt(t, i + Len(head) + a, <<")">>)
        THEN Len(head) + a + 1 ELSE 0

\* r'(?<!\\)nthroot\((\d+),\s*([^)]+)\)'
NthRootMatch(t, i) ==
    LET head == <<"n","t","h","r","o","o","t","(">>
        d == RunLen(t, i + 8, "digit")
        r == RunLen(t, i + 9 + d, "not_rparen")
    IN  IF /\ StartsAt(t, i, head)
           /\ (i = 1 \/ t[i - 1] # BS)
           /\ d >= 1
           /\ StartsAt(t, i + 8 + d, <<",">>)
           /\ r >= 1
           /\ StartsAt(t, i + 9 + d + r, <<")">>)
        THEN 8 + d + 1 + r + 1 ELSE 0

_normalize_roots(latex) ==
    LET sqrtHead == <<"s","q","r","t","(">>
        cbrtHead == <<"c","b","r","t","(">>
        M1(t, i) == RootMatch(t, i, sqrtHead)
        R1(t, i, k) ==
            <<BS,"s","q","r","t","{">> \o SubSeq(t, i + 5, i + k - 2) \o <<"}">>
        M2(t, i) == RootMatch(t, i, cbrtHead)
        R2(t, i, k) ==
            <<BS,"s","q","r","t","[","3","]","{">> \o SubSeq(t, i + 5, i + k - 2) \o <<"}">>
        \* \s* is greedy but gives one character back when [^)]+ would
        \* otherwise be empty
        R3(t, i, k) ==
            LET d == RunLen(t, i + 8, "digit")
                r == RunLen(t, i + 9 + d, "not_rparen")
                w == RunLen(t, i + 9 + d, "space")
                skip == IF w < r THEN w ELSE r - 1
            IN  <<BS,"s","q","r","t","[">> \o SubSeq(t, i + 8, i + 7 + d)
                \o <<"]","{">> \o SubSeq(t, i + 9 + d + skip, i + 8 + d + r)
                \o <<"}">>
        result1 == ReSub(latex,
                         [i \in 1..Len(latex) |-> M1(latex, i)],
                         [i \in 1..Len(latex) |->
                             IF M1(latex, i) > 0 THEN R1(latex, i, M1(latex, i)) ELSE <<>>])
        result2 == ReSub(result1,
                         [i \in 1..Len(result1) |-> M2(result1, i)],
                         [i \in 1..Len(result1) |->
                             IF M2(result1, i) > 0 THEN R2(result1, i, M2(result1, i)) ELSE <<>>])
        result3 == ReSub(result2,
                         [i \in 1..Len(result2) |-> NthRootMatch(result2, i)],
                         [i \in 1..Len(result2) |->
                             IF NthRootMatch(result2, i) > 0 THEN R3(result2, i, NthRootMatch(result2, i)) ELSE <<>>])
    IN  Last(<<result1, result2, result3>>)

\* a script pattern that asks for three characters or more
ScriptRunLenThree(t, i) ==
    LET L == RunLen(t, i + 1, "alnum")
        p == i + 1 + L
        braceNext == p <= Len(t) /\ t[p] \in {"{", "}"}
    IN  IF L >= 3 /\ ~braceNext THEN L
        ELSE IF L >= 4 /\ braceNext THEN L - 1
        ELSE 0

\* r'_([a-zA-Z0-9]{2,})(?![{}])' (mark "_") and the same for "^": the run
\* is greedy and gives its last character back when a brace follows it
ScriptRunLen(t, i) ==
    LET L == RunLen(t, i + 1, "alnum")
        p == i + 1 + L
        braceNext == p <= Len(t) /\ t[p] \in {"{", "}"}
    IN  IF L >= 2 /\ ~braceNext THEN L
        ELSE IF L >= 3 /\ braceNext THEN L - 1
        ELSE 0

BraceScripts(s, mark) ==
    LET M(t, i) ==
            IF t[i] = mark /\ ScriptRunLen(t, i) > 0
            THEN 1 + ScriptRunLen(t, i) ELSE 0
        R(t, i, k) == <<mark, "{">> \o SubSeq(t, i + 1, i + k - 1) \o <<"}">>
    IN  ReSub(s,
              [i \in 1..Len(s) |-> M(s, i)],
              [i \in 1..Len(s) |->
                  IF M(s, i) > 0 THEN R(s, i, M(s, i)) ELSE <<>>])

\* r'\^2(?![{}0-9])', r'\^3(?![{}0-9])', r'\^n(?![{}a-zA-Z])'
BraceCommonSuperscript(s, c, excluded) ==
    LET M(t, i) ==
            IF /\ StartsAt(t, i, <<"^", c>>)
               /\ (i + 2 > Len(t) \/ ~(t[i + 2] \in {"{", "}"} \/ InClass(excluded, t[i + 2])))
            THEN 2 ELSE 0
        R(t, i, k) == <<"^", "{", c, "}">>
    IN  ReSub(s,
              [i \in 1..Len(s) |-> M(s, i)],
              [i \in 1..Len(s) |->
                  IF M(s, i) > 0 THEN R(s, i, M(s, i)) ELSE <<>>])

_normalize_subscripts_superscripts(latex) ==
    LET r1 == BraceScripts(latex, "_")
        r2 == BraceScripts(r1, "^")
        r3 == BraceCommonSuperscript(r2, "2", "digit")
        r4 == BraceCommonSuperscript(r3, "3", "digit")
        r5 == BraceCommonSuperscript(r4, "n", "alpha")
    IN  Last(<<r1, r2, r3, r4, r5>>)

\* the names of greek_letters, in the order of the source; each command is
\* "\" followed by the name
greek_letters ==
    << <<"a","l","p","h","a">>, <<"b","e","t","a">>, <<"g","a","m","m","a">>,
       <<"d","e","l","t","a">>, <<"e","p","s","i","l","o","n">>,
       <<"z","e","t","a">>,
       <<"e","t","a">>, <<"t","h","e","t","a">>, <<"i","o","t","a">>,
       <<"k","a","p","p","a">>, <<"m","u">>,
       <<"n","u">>, <<"x","i">>,
       <<"r","h","o">>, <<"s","i","g","m","a">>, <<"t","a","u">>,
       <<"u","p","s","i","l","o","n">>, <<"p","h","i">>, <<"c","h","i">>,
       <<"p","s","i">>, <<"o","m","e","g","a">>,
       <<"p","i">>,
       <<"l","a","m","b","d","a">>,
       <<"G","a","m","m","a">>, <<"D","e","l","t","a">>, <<"T","h","e","t","a">>,
       <<"L","a","m","b","d","a">>, <<"X","i">>, <<"P","i">>,
       <<"S","i","g","m","a">>, <<"P","h","i">>, <<"P","s","i">>,
       <<"O","m","e","g","a">> >>

_normalize_greek_letters(latex) ==
    EscapeWords(latex, greek_letters, 1)

\* identity whether or not \left / \right is present
_normalize_brackets(latex) ==
    IF Contains(latex, <<BS,"l","e","f","t">>) \/ Contains(latex, <<BS,"r","i","g","h","t">>)
    THEN latex
    ELSE latex

normalize_latex(latex) ==
    IF latex = <<>> THEN <<>>
    ELSE strip(
         _normalize_brackets(
         _normalize_greek_letters(
         _normalize_subscripts_superscripts(
         _normalize_roots(
         _normalize_operators(
         _normalize_functions(
         _normalize_fractions(
         CollapseWhitespace(
         strip(StripDelimiters(strip(latex))))))))))))

\* the tests of lines 224-247 in their order: the substrings looked for and
\* the tag appended when one of them is in the string
description_tags ==
    << [markers |-> {<<BS,"f","r","a","c">>}, tag |-> <<"f","r","a","c","t","i","o","n","/","r","a","t","i","o">>],
       [markers |-> {<<BS,"s","u","m">>}, tag |-> <<"s","u","m","m","a","t","i","o","n">>],
       [markers |-> {<<BS,"i","n","t">>}, tag |-> <<"i","n","t","e","g","r","a","l">>],
       [markers |-> {<<BS,"p","r","o","d">>}, tag |-> <<"p","r","o","d","u","c","t">>],
       [markers |-> {<<BS,"l","i","m">>}, tag |-> <<"l","i","m","i","t">>],
       [markers |-> {<<BS,"s","i","n">>, <<BS,"c","o","s">>, <<BS,"t","a","n">>}, tag |-> <<"t","r","i","g","o","n","o","m","e","t","r","i","c">>],
       [markers |-> {<<BS,"s","q","r","t">>}, tag |-> <<"s","q","u","a","r","e"," ","r","o","o","t">>],
       [markers |-> {<<"=">>}, tag |-> <<"e","q","u","a","t","i","o","n">>],
       [markers |-> {<<BS,"g","e","q">>, <<BS,"l","e","q">>, <<">">>, <<"<">>}, tag |-> <<"i","n","e","q","u","a","l","i","t","y">>],
       [markers |-> {<<BS,"p","a","r","t","i","a","l">>}, tag |-> <<"p","a","r","t","i","a","l"," ","d","e","r","i","v","a","t","i","v","e">>],
       [markers |-> {<<"\n","a","b","l","a">>, <<BS,"g","r","a","d">>}, tag |-> <<"g","r","a","d","i","e","n","t">>],
       [markers |-> {<<BS,"m","a","t","r","i","x">>, <<BS,"b","e","g","i","n","{","m","a","t","r","i","x","}">>}, tag |-> <<"m","a","t","r","i","x">>] >>

\* sep.join(parts)
RECURSIVE Join(_, _)
Join(sep, parts) ==
    IF parts = <<>> THEN <<>>
    ELSE IF Len(parts) = 1 THEN parts[1]
    ELSE parts[1] \o sep \o Join(sep, Tail(parts))

\* a chain of tests that stops at the first one that holds (elif)
RECURSIVE DescriptionPartsFirstOnly(_, _)
DescriptionPartsFirstOnly(latex, k) ==
    IF k > Len(description_tags) THEN <<>>
    ELSE IF \E m \in description_tags[k].markers : Contains(latex, m)
    THEN <<description_tags[k].tag>>
    ELSE DescriptionPartsFirstOnly(latex, k + 1)

\* description_parts after the tests from the k-th on
RECURSIVE DescriptionParts(_, _)
DescriptionParts(latex, k) ==
    IF k > Len(description_tags) THEN <<>>
    ELSE (IF \E m \in description_tags[k].markers : Contains(latex, m)
          THEN <<description_tags[k].tag>> ELSE <<>>)
         \o DescriptionParts(latex, k + 1)

\* f"{desc}\nLaTeX: {latex}" with desc = " ".join(description_parts)
create_formula_description(latex) ==
    Join(<<" ">>, <<<<"M","a","t","h","e","m","a","t","i","c","a","l"," ","f","o","r","m","u","l","a",":">>>> \o DescriptionParts(latex, 1))
    \o <<"\n","L","a","T","e","X",":"," ">> \o latex

\* ------------------------------------------------------------------------
\* vector_formula_extractor.py: geometry of the Detector
\* ------------------------------------------------------------------------

\* page.rect.width and page.rect.height of every page of the model
PageWidth ==
    600

PageHeight ==
    800

\* the header / footer band of lines 86 and 160
BandHeight ==
    70

\* the size thresholds of lines 94 and 166
MinWidth ==
    30

MinHeight ==
    10

\* pix.color_count() < 3 of line 175
MinColors ==
    3

\* sample_pages of has_vector_formulas
SamplePages ==
    3

Rect(x0, y0, x1, y1) ==
    [x0 |-> x0, y0 |-> y0, x1 |-> x1, y1 |-> y1]

Max(a, b) ==
    IF a >= b THEN a ELSE b

Min(a, b) ==
    IF a <= b THEN a ELSE b

\* fitz: rect & table_bbox
Intersect(r, t) ==
    Rect(Max(r.x0, t.x0), Max(r.y0, t.y0), Min(r.x1, t.x1), Min(r.y1, t.y1))

\* fitz: Rect.is_empty
IsEmptyRect(r) ==
    r.x0 >= r.x1 \/ r.y0 >= r.y1

\* fitz: Rect.get_area()
GetArea(r) ==
    IF IsEmptyRect(r) THEN 0 ELSE (r.x1 - r.x0) * (r.y1 - r.y0)

\* the loop of lines 150-154: the intersections with all tables, summed
RECURSIVE OverlapArea(_, _)
OverlapArea(rect, table_bboxes) ==
    IF table_bboxes = <<>> THEN 0
    ELSE LET intersect == Intersect(rect, Head(table_bboxes))
         IN  (IF ~IsEmptyRect(intersect) THEN GetArea(intersect) ELSE 0)
             + OverlapArea(rect, Tail(table_bboxes))

\* a table filter that asks for more overlap than the whole cluster
TableFilterWhole(rect, table_bboxes) ==
    OverlapArea(rect, table_bboxes) > GetArea(rect)

\* overlap_area > rect.get_area() * 0.5, in integers
TableFilter(rect, table_bboxes) ==
    2 * OverlapArea(rect, table_bboxes) > GetArea(rect)

\* a band filter that knows the header only
BandFilterHeaderOnly(rect) ==
    rect.y1 < BandHeight

\* rect.y1 < 70 or rect.y0 > page.rect.height - 70
BandFilter(rect) ==
    rect.y1 < BandHeight \/ rect.y0 > PageHeight - BandHeight

Width(rect) ==
    rect.x1 - rect.x0

Height(rect) ==
    rect.y1 - rect.y0

\* create_marked_pdf_and_extract_formulas: width < 30 or height < 10
SizeFilter(rect) ==
    Width(rect) < MinWidth \/ Height(rect) < MinHeight

\* the three filters of create_marked_pdf_and_extract_formulas
DetectorRejects(rect, table_bboxes) ==
    TableFilter(rect, table_bboxes) \/ BandFilter(rect) \/ SizeFilter(rect)

\* has_vector_formulas: the cluster is counted as a candidate
\* (width < page.rect.width * 0.9 in integers)
GateCounts(rect, table_bboxes) ==
    /\ ~TableFilter(rect, table_bboxes)
    /\ ~BandFilter(rect)
    /\ Width(rect) > MinWidth
    /\ Height(rect) > MinHeight
    /\ 10 * Width(rect) < 9 * PageWidth

\* the (page, cluster) positions has_vector_formulas counts on the sampled
\* pages
GateCandidates(d) ==
    UNION { {<<p, c>> : c \in {k \in 1..Len(d[p].clusters) :
                                 GateCounts(d[p].clusters[k].rect, d[p].tables)}} :
            p \in 1..Min(SamplePages, Len(d)) }

\* has_vector_formulas: an exception on any sampled page is caught and the
\* answer is False
has_vector_formulas(d) ==
    IF \E p \in 1..Min(SamplePages, Len(d)) : d[p].fails
    THEN FALSE
    ELSE Cardinality(GateCandidates(d)) > 0

\* ------------------------------------------------------------------------
\* markers
\* ------------------------------------------------------------------------

FORMULA_MARKER_PREFIX ==
    <<"#","#","F","O","R","M","U","L","A","_">>

FORMULA_MARKER_SUFFIX ==
    <<"#","#">>

DigitChar(d) ==
    <<"0","1","2","3","4","5","6","7","8","9">>[d + 1]

\* str(k) for k >= 0
RECURSIVE Decimal(_)
Decimal(k) ==
    IF k < 10 THEN <<DigitChar(k)>> ELSE Decimal(k \div 10) \o <<DigitChar(k % 10)>>

\* f"{k:03d}"
RECURSIVE ZeroPad(_, _)
ZeroPad(digits, width) ==
    IF Len(digits) >= width THEN digits ELSE ZeroPad(<<"0">> \o digits, width)

Format03d(k) ==
    ZeroPad(Decimal(k), 3)

\* f"{FORMULA_MARKER_PREFIX}{formula_idx:03d}{FORMULA_MARKER_SUFFIX}"
Marker(formula_idx) ==
    FORMULA_MARKER_PREFIX \o Format03d(formula_idx) \o FORMULA_MARKER_SUFFIX

\* ------------------------------------------------------------------------
\* vision adapter: convert_formula_image_to_latex
\* ------------------------------------------------------------------------

\* Python None, as a value no string of characters equals
None ==
    <<"None">>

\* bool(x) of an Optional[str]
Truthy(x) ==
    x # None /\ x # <<>>

\* a cleanup that leaves the code fences in
CleanLatexKeepsFences(content) ==
    IF stripChar(strip(content), "$") # <<>>
    THEN stripChar(strip(content), "$")
    ELSE None

\* lines 268-274: the cleanup of the reply text, then: latex if latex else None
CleanLatex(content) ==
    LET l1 == strip(content)
        l2 == Replace(l1, <<GRAVE,GRAVE,GRAVE,"l","a","t","e","x">>, <<>>)
        l3 == strip(Replace(l2, <<GRAVE,GRAVE,GRAVE>>, <<>>))
        l4 == stripChar(l3, "$")
    IN  IF Last(<<l1, l2, l3, l4>>) # <<>> THEN l4 ELSE None

\* what one vision call can do: raise (transport error, timeout), answer
\* with no content (message.content is None, .strip() raises), or answer
\* with text
ReplyTexts ==
    { <<>>,
      <<" ">>,
      <<GRAVE,GRAVE,GRAVE,"l","a","t","e","x","\n",GRAVE,GRAVE,GRAVE>>,
      <<"$","$">>,
      <<"x">>,
      <<"$","x","$">>,
      <<GRAVE,GRAVE,GRAVE,"x",GRAVE,GRAVE,GRAVE>>,
      Marker(0) }

Replies ==
    {[kind |-> "raise", content |-> <<>>],
     [kind |-> "timeout", content |-> <<>>],
     [kind |-> "no_content", content |-> <<>>]}
    \cup {[kind |-> "text", content |-> t] : t \in ReplyTexts}

\* convert_formula_image_to_latex for one reply: every exception inside
\* the try block is caught and None returned
convert_formula_image_to_latex(reply) ==
    IF reply.kind = "text" THEN CleanLatex(reply.content) ELSE None

\* ------------------------------------------------------------------------
\* vision adapter: extract_formula_from_image, extract_formulas_from_page
\* ------------------------------------------------------------------------

LowerSeq ==
    <<"a","b","c","d","e","f","g","h","i","j","k","l","m",
      "n","o","p","q","r","s","t","u","v","w","x","y","z">>

UpperSeq ==
    <<"A","B","C","D","E","F","G","H","I","J","K","L","M",
      "N","O","P","Q","R","S","T","U","V","W","X","Y","Z">>

\* str.upper()
upper(s) ==
    [i \in 1..Len(s) |->
        IF s[i] \in Lower
        THEN UpperSeq[CHOOSE k \in 1..26 : LowerSeq[k] = s[i]]
        ELSE s[i]]

\* the first position of sep in s from position i on, 0 if there is none
RECURSIVE IndexOf(_, _, _)
IndexOf(s, sep, i) ==
    IF i + Len(sep) - 1 > Len(s) THEN 0
    ELSE IF StartsAt(s, i, sep) THEN i
    ELSE IndexOf(s, sep, i + 1)

\* str.split(sep)
RECURSIVE split(_, _)
split(s, sep) ==
    IF IndexOf(s, sep, 1) = 0 THEN <<s>>
    ELSE <<SubSeq(s, 1, IndexOf(s, sep, 1) - 1)>>
         \o split(SubSeq(s, IndexOf(s, sep, 1) + Len(sep), Len(s)), sep)

\* [l for l in lines if l.strip() and "FORMULA:" not in l.upper()]; with
\* keep_blank, [l for l in lines if "FORMULA:" not in l.upper()]
RECURSIVE PayloadLines(_, _)
PayloadLines(lines, keep_blank) ==
    IF lines = <<>> THEN <<>>
    ELSE (IF /\ (keep_blank \/ strip(Head(lines)) # <<>>)
             /\ ~Contains(upper(Head(lines)), <<"F","O","R","M","U","L","A",":">>)
          THEN <<Head(lines)>> ELSE <<>>)
         \o PayloadLines(Tail(lines), keep_blank)

\* image_describer.py lines 168-169: the cleanup of extract_formula_from_image
CleanImageLatex(raw_latex) ==
    strip(Replace(Replace(raw_latex, <<GRAVE,GRAVE,GRAVE,"l","a","t","e","x">>, <<>>),
                  <<GRAVE,GRAVE,GRAVE>>, <<>>))

\* extract_formula_from_image for one reply of the vision call, as
\* [is_formula, latex, description]; every exception is caught
extract_formula_from_image(r) ==
    IF r.kind # "text"
    THEN [is_formula |-> FALSE, latex |-> None, description |-> <<"[","I","m","a","g","e",":"," ","i",".","p","n","g","]">>]
    ELSE IF Contains(upper(r.content), <<"F","O","R","M","U","L","A",":"," ","Y","E","S">>)
    THEN LET raw_latex ==
                 CleanImageLatex(strip(Join(<<"\n">>,
                     PayloadLines(Tail(split(strip(r.content), <<"\n">>)), FALSE))))
         IN  [is_formula |-> TRUE,
              latex |-> raw_latex,
              description |-> create_formula_description(normalize_latex(raw_latex))]
    ELSE [is_formula |-> FALSE,
          latex |-> None,
          description |-> strip(Join(<<"\n">>,
              PayloadLines(split(strip(r.content), <<"\n">>), TRUE)))]

\* the loop of page_formula_extractor.py lines 132-137 over the lines of a
\* block, on the state [location, latex]
RECURSIVE ParseBlockLines(_, _)
ParseBlockLines(lines, st) ==
    IF lines = <<>> THEN st
    ELSE LET line == strip(Head(lines))
         IN  IF StartsAt(upper(line), 1, <<"L","O","C","A","T","I","O","N",":">>)
             THEN ParseBlockLines(Tail(lines),
                      [st EXCEPT !.location = strip(SubSeq(line, 10, Len(line)))])
             ELSE IF StartsAt(upper(line), 1, <<"L","A","T","E","X",":">>)
             THEN ParseBlockLines(Tail(lines),
                      [st EXCEPT !.latex = strip(SubSeq(line, 7, Len(line)))])
             ELSE ParseBlockLines(Tail(lines), st)

\* page_formula_extractor.py lines 140-142: the cleanup of a LATEX: value
CleanPageLatex(latex) ==
    stripChar(strip(Replace(Replace(latex, <<GRAVE,GRAVE,GRAVE,"l","a","t","e","x">>, <<>>),
                            <<GRAVE,GRAVE,GRAVE>>, <<>>)), "$")

\* lines 126-149 for one block: the entries it adds to formulas
ParseBlock(block, page_num) ==
    IF ~Contains(block, <<"F","O","R","M","U","L","A","_","E","N","D">>) THEN <<>>
    ELSE LET content == strip(split(block, <<"F","O","R","M","U","L","A","_","E","N","D">>)[1])
             st == ParseBlockLines(split(content, <<"\n">>),
                                   [location |-> <<>>, latex |-> <<>>])
         IN  IF st.latex = <<>> THEN <<>>
             ELSE << [latex |-> CleanPageLatex(st.latex),
                      normalized |-> normalize_latex(CleanPageLatex(st.latex)),
                      location |-> st.location,
                      page_num |-> page_num] >>

\* line 118: "NO_FORMULAS" in result.upper()
HasNoFormulasSentinel(result) ==
    Contains(upper(result), <<"N","O","_","F","O","R","M","U","L","A","S">>)

RECURSIVE ParseBlocks(_, _)
ParseBlocks(blocks, page_num) ==
    IF blocks = <<>> THEN <<>>
    ELSE ParseBlock(Head(blocks), page_num) \o ParseBlocks(Tail(blocks), page_num)

\* extract_formulas_from_page for one reply of the vision call; every
\* exception is caught and [] returned
extract_formulas_from_page(r, page_num) ==
    IF r.kind # "text" THEN <<>>
    ELSE IF HasNoFormulasSentinel(r.content) THEN <<>>
    ELSE ParseBlocks(Tail(split(r.content, <<"F","O","R","M","U","L","A","_","S","T","A","R","T">>)), page_num)

\* ------------------------------------------------------------------------
\* placeholder fallback: insert_formulas_into_markdown
\* ------------------------------------------------------------------------

\* the position after p when p stands at position j of t, 0 when it does
\* not or when j is 0 (no match so far)
Expect(t, j, p) ==
    IF j > 0 /\ StartsAt(t, j, p) THEN j + Len(p) ELSE 0

\* the position after the run of characters of a class that starts at j,
\* 0 when j is 0 (no match so far)
SkipClass(t, j, class) ==
    IF j = 0 THEN 0 ELSE j + RunLen(t, j, class)

\* an optional character c at position j: the position after it
SkipChar(t, j, c) ==
    IF j > 0 /\ j <= Len(t) /\ t[j] = c THEN j + 1 ELSE j

\* \s*o?\s*r?\s*m?\s*u?\s*l?\s*e? from position j: the position after it,
\* 0 when j is 0 (no match so far)
RECURSIVE SkipLetters(_, _, _)
SkipLetters(t, j, letters) ==
    IF letters = <<>> \/ j = 0 THEN j
    ELSE SkipLetters(t, SkipChar(t, SkipClass(t, j, "space"), Head(letters)),
                     Tail(letters))

\* [Ff] at position j: the position after it, 0 when it is not there or
\* j is 0
ExpectF(t, j) ==
    IF j > 0 /\ j <= Len(t) /\ t[j] \in {"F", "f"} THEN j + 1 ELSE 0

\* the second digit group when the first is the run of n1 digits at d1 and
\* d2 is the position after the optional "." and the whitespace around it:
\* the digit run at d2, or, when nothing follows the first run, the end of
\* a first run of two or more digits.  The position after the group, 0
\* when there is none.
SecondDigits(t, d1, n1, d2) ==
    IF n1 = 0 THEN 0
    ELSE IF d2 <= Len(t) /\ IsDigit(t[d2]) THEN SkipClass(t, d2, "digit")
    ELSE IF n1 >= 2 THEN d1 + n1
    ELSE 0

\* (\d+)\s*\.?\s*(\d+) from position d1: the position after it, 0 when it
\* does not match or d1 is 0
DigitGroups(t, d1) ==
    IF d1 = 0 THEN 0
    ELSE SecondDigits(t, d1, RunLen(t, d1, "digit"),
                      SkipClass(t,
                                SkipChar(t, SkipClass(t, SkipClass(t, d1, "digit"), "space"), "."),
                                "space"))

\* placeholder_pattern (line 220) tried at position i of t: the position
\* after the match, 0 when the pattern does not match at i
PlaceholderEnd(t, i) ==
    Expect(t,
      SkipClass(t,
        Expect(t,
          SkipClass(t,
            DigitGroups(t,
              SkipClass(t,
                SkipLetters(t,
                  ExpectF(t,
                    SkipClass(t,
                      Expect(t,
                        SkipClass(t, Expect(t, i, <<"$","$">>), "space"),
                        <<"(">>),
                      "space")),
                  <<"o","r","m","u","l","e">>),
                "space_bs")),
            "space"),
          <<")">>),
        "space"),
      <<"$","$">>)

\* replace_placeholder that drops a placeholder no formula is left for
replace_placeholderDropsSurplus(matched, formulas, formula_idx) ==
    IF formula_idx < Len(formulas)
    THEN <<"\n","$","$","\n">> \o formulas[formula_idx + 1].latex \o <<"\n","$","$","\n">>
    ELSE <<>>

\* replace_placeholder (lines 226-233) for the match text and the value of
\* formula_idx before the call: the replacement text
replace_placeholder(matched, formulas, formula_idx) ==
    IF formula_idx < Len(formulas)
    THEN <<"\n","$","$","\n">> \o formulas[formula_idx + 1].latex \o <<"\n","$","$","\n">>
    ELSE matched

\* re.sub(placeholder_pattern, replace_placeholder, result) from position i
\* on, formula_idx counting the calls of replace_placeholder that used a
\* formula
RECURSIVE SubPlaceholders(_, _, _, _)
\* the step at position i when the pattern tried at i ends at e (0: no
\* match at i)
SubPlaceholdersAt(t, i, e, formulas, formula_idx) ==
    IF e > 0
    THEN replace_placeholder(SubSeq(t, i, e - 1), formulas, formula_idx)
         \o SubPlaceholders(t, e, formulas,
                            IF formula_idx < Len(formulas) THEN formula_idx + 1
                            ELSE formula_idx)
    ELSE <<t[i]>> \o SubPlaceholders(t, i + 1, formulas, formula_idx)

SubPlaceholders(t, i, formulas, formula_idx) ==
    IF i > Len(t) THEN <<>>
    ELSE SubPlaceholdersAt(t, i, PlaceholderEnd(t, i), formulas, formula_idx)

insert_formulas_into_markdown(markdown_text, formulas) ==
    SubPlaceholders(markdown_text, 1, formulas, 0)

\* ------------------------------------------------------------------------
\* resolver: replace_markers_with_latex
\* ------------------------------------------------------------------------

\* f"\n\n$${latex}$$\n\n"
DisplayBlock(latex) ==
    <<"\n", "\n", "$", "$">> \o latex \o <<"$", "$", "\n", "\n">>

\* one iteration of the loop of lines 327-336 on the state
\* [result, replaced_count]
ReplaceOne(st, formula_info) ==
    IF /\ formula_info.marker # <<>>
       /\ Truthy(formula_info.latex)
       /\ Contains(st.result, formula_info.marker)
    THEN [result |-> Replace(st.result, formula_info.marker,
                             DisplayBlock(formula_info.latex)),
          replaced_count |-> st.replaced_count + 1]
    ELSE st

RECURSIVE ReplaceLoop(_, _, _)
ReplaceLoop(st, fs, k) ==
    IF k > Len(fs) THEN st
    ELSE LET next == ReplaceOne(st, fs[k])
         IN  IF next = next THEN ReplaceLoop(next, fs, k + 1) ELSE next

\* replace_markers_with_latex: the returned text and the count it prints
replace_markers_with_latex(markdown_text, fs) ==
    ReplaceLoop([result |-> markdown_text, replaced_count |-> 0], fs, 1)

\* parse_pdf lines 182-184: sum(1 for f in vector_formulas if f.get("latex"))
RECURSIVE CountWithLatex(_)
CountWithLatex(fs) ==
    IF fs = <<>> THEN 0
    ELSE (IF Truthy(Head(fs).latex) THEN 1 ELSE 0) + CountWithLatex(Tail(fs))

\* ------------------------------------------------------------------------
\* paths and files
\* ------------------------------------------------------------------------

\* the last position of character c in s[1..i], 0 if there is none
RECURSIVE LastIndexOf(_, _, _)
LastIndexOf(s, c, i) ==
    IF i = 0 THEN 0
    ELSE IF s[i] = c THEN i
    ELSE LastIndexOf(s, c, i - 1)

\* Path(p).name
PathName(p) ==
    SubSeq(p, LastIndexOf(p, "/", Len(p)) + 1, Len(p))

\* Path(p).stem: the name without its last suffix
PathStem(p) ==
    LET name == PathName(p)
        dot == LastIndexOf(name, ".", Len(name))
    IN  IF dot <= 1 \/ dot = Len(name) THEN name ELSE SubSeq(name, 1, dot - 1)

\* tempfile.gettempdir()
TempDir ==
    <<"/", "t">>

\* IMAGE_DIR.parent / "markdown"
MarkdownDir ==
    <<"/", "m">>

\* IMAGE_DIR
ImageDir ==
    <<"/", "i">>

\* lines 127 and 182-183: IMAGE_DIR / pdf_path.stem / "vector_formulas" /
\* f"formula_{formula_idx:03d}.png"
FormulaImagePathOf(path, formula_idx) ==
    ImageDir \o <<"/">> \o PathStem(path) \o <<"/","v","e","c","t","o","r","_","f","o","r","m","u","l","a","s","/","f","o","r","m","u","l","a","_">>
    \o Format03d(formula_idx) \o <<".","p","n","g">>

\* a marked copy written over the file it was made from
MarkedPathInPlace(path) ==
    path

\* lines 218-219: temp_dir / f"{pdf_path.stem}_marked.pdf"
MarkedPathOf(path) ==
    TempDir \o <<"/">> \o PathStem(path)
    \o <<"_","m","a","r","k","e","d",".","p","d","f">>

\* markdown_dir / f"{pdf_path.stem}.md"
MarkdownPathOf(path) ==
    MarkdownDir \o <<"/">> \o PathStem(path) \o <<".","m","d">>

\* a file system after path has been written with content
WriteFile(files, path, content) ==
    [q \in DOMAIN files \cup {path} |-> IF q = path THEN content ELSE files[q]]

\* the markers page.insert_text put into the open document, in order
RECURSIVE InsertedMarkers(_)
InsertedMarkers(fs) ==
    IF fs = <<>> THEN <<>>
    ELSE <<Head(fs).marker>> \o InsertedMarkers(Tail(fs))

\* ------------------------------------------------------------------------
\* bounded inputs
\* ------------------------------------------------------------------------

\* pages of a multi-page document
MaxPages ==
    2

\* tokens of a normalize_latex input
MaxNormTokens ==
    3

\* formulas and text tokens of a replace_markers_with_latex call
MaxFormulas ==
    2

MaxTextTokens ==
    3

Cluster(rect, render, colors) ==
    [rect |-> rect, render |-> render, colors |-> colors]

Page(fails, tables, clusters) ==
    [fails |-> fails, tables |-> tables, clusters |-> clusters]

\* cluster corners on a grid around the thresholds of the filters
GridX ==
    {0, 10, 40, 45, 300, 590}

GridY ==
    {0, 60, 69, 70, 80, 400, 730, 731, 790}

GridRects ==
    {Rect(x0, y0, x1, y1) : x0 \in GridX, y0 \in GridY, x1 \in GridX, y1 \in GridY}
    \ {r \in {Rect(x0, y0, x1, y1) : x0 \in GridX, y0 \in GridY, x1 \in GridX, y1 \in GridY} :
          r.x0 >= r.x1 \/ r.y0 >= r.y1}

\* what find_tables can return on a page: nothing, one table, two tables
\* side by side
TableChoices ==
    { <<>>,
      <<Rect(0, 0, 600, 800)>>,
      <<Rect(0, 60, 300, 400)>>,
      <<Rect(0, 0, 300, 800), Rect(300, 0, 600, 800)>> }

\* one-page documents with one drawing cluster anywhere on the grid
GeometryDocs ==
    {<<Page(FALSE, tables, <<Cluster(rect, "ok", 5)>>)>> :
        tables \in TableChoices, rect \in GridRects}

FormulaRect ==
    Rect(100, 100, 300, 140)

OtherFormulaRect ==
    Rect(100, 200, 300, 260)

PageKinds ==
    { Page(FALSE, <<>>, <<>>),
      Page(FALSE, <<>>, <<Cluster(FormulaRect, "ok", 5)>>),
      Page(FALSE, <<Rect(0, 300, 600, 500)>>,
           <<Cluster(FormulaRect, "ok", 5),
             Cluster(Rect(100, 150, 300, 190), "ok", 1),
             Cluster(Rect(100, 20, 300, 60), "ok", 5),
             Cluster(Rect(100, 320, 300, 360), "ok", 5),
             Cluster(OtherFormulaRect, "ok", 5)>>),
      Page(FALSE, <<>>, <<Cluster(FormulaRect, "raise", 5)>>),
      Page(FALSE, <<>>, <<Cluster(FormulaRect, "ok", 1)>>),
      Page(TRUE, <<>>, <<Cluster(FormulaRect, "ok", 5)>>) }

\* documents of up to MaxPages pages
PagedDocs ==
    UNION {[1..n -> PageKinds] : n \in 1..MaxPages}

\* documents longer than the gate's sample: the fourth page is never sampled
LongDocs ==
    {<<first, Page(FALSE, <<>>, <<>>), Page(FALSE, <<>>, <<>>), p>> :
        first \in {Page(FALSE, <<>>, <<>>),
                   Page(FALSE, <<>>, <<Cluster(FormulaRect, "ok", 5)>>)},
        p \in PageKinds}

\* a cluster wider than nine tenths of the page (a figure, a rule) below a
\* formula on the same page
WideRect ==
    Rect(10, 200, 590, 260)

WideDocs ==
    { <<Page(FALSE, <<>>, <<Cluster(FormulaRect, "ok", 5),
                            Cluster(WideRect, "ok", 5)>>)>> }

\* a formula between two tables, a third of it inside each of them, below
\* a formula clear of both
StraddleRect ==
    Rect(100, 180, 300, 240)

StraddleDocs ==
    { <<Page(FALSE, <<Rect(50, 150, 550, 200), Rect(50, 220, 550, 320)>>,
             <<Cluster(FormulaRect, "ok", 5), Cluster(StraddleRect, "ok", 5)>>)>> }

\* where the source PDF lies: in a documents folder, or in the temporary
\* folder under the name a marked copy would have
DefaultSourcePath ==
    <<"/","d","/","a",".","p","d","f">>

SourcePaths ==
    { DefaultSourcePath,
      <<"/","t","/","a","_","m","a","r","k","e","d",".","p","d","f">> }

\* the one-page documents
SmallDocs ==
    {<<p>> : p \in PageKinds}

Docs ==
    GeometryDocs \cup PagedDocs \cup LongDocs \cup WideDocs \cup StraddleDocs

\* normalize_latex inputs: up to MaxNormTokens tokens, concatenated
NormTokens ==
    { <<"a">>, <<"b">>, <<" ">>, <<"*">>, <<"/">>, <<"(","a",")">>, <<"$">> }

NormInputs ==
    {Flatten(ts) : ts \in SeqsUpTo(NormTokens, MaxNormTokens)}

\* the longest subscript of the subscript examples
MaxSubscriptLen ==
    3

\* "a/b" for single alphanumeric characters a and b
FractionInputs ==
    {<<a, "/", b>> : a \in Lower \cup Upper \cup Digits,
                     b \in Lower \cup Upper \cup Digits}

\* the longest numerator or denominator of the multi-character examples
MaxRunLen ==
    2

\* numerators and denominators of one or more digits or letters
FractionRuns ==
    UNION {[1..k -> {"1", "0", "a"}] : k \in 1..MaxRunLen}

\* "num/den" with a numerator or a denominator of more than one character
LongFractionInputs ==
    {num \o <<"/">> \o den : num \in FractionRuns, den \in FractionRuns}
    \ FractionInputs

\* the characters of the subscript examples
SubscriptChars ==
    {"a", "b", "1", "n"}

SubscriptRuns ==
    UNION {[1..k -> SubscriptChars] : k \in 1..MaxSubscriptLen}

\* "x_run" and "x_{run}"
SubscriptInputs ==
    {<<"x", "_">> \o r : r \in SubscriptRuns}
    \cup {<<"x", "_", "{">> \o r \o <<"}">> : r \in SubscriptRuns}

\* every name of greek_letters, bare and as a command
GreekInputs ==
    {greek_letters[k] : k \in 1..Len(greek_letters)}
    \cup {<<BS>> \o greek_letters[k] : k \in 1..Len(greek_letters)}

\* tokens of a create_formula_description input
MaxDescribeTokens ==
    2

\* every substring create_formula_description looks for, and plain text
DescribeTokens ==
    { <<BS,"f","r","a","c">>, <<BS,"s","u","m">>, <<BS,"i","n","t">>, <<BS,"p","r","o","d">>, <<BS,"l","i","m">>, <<BS,"s","i","n">>, <<BS,"c","o","s">>,
      <<BS,"t","a","n">>, <<BS,"s","q","r","t">>, <<"=">>, <<BS,"g","e","q">>, <<BS,"l","e","q">>, <<">">>, <<"<">>, <<BS,"p","a","r","t","i","a","l">>,
      <<"\n","a","b","l","a">>, <<BS,"g","r","a","d">>, <<BS,"m","a","t","r","i","x">>, <<BS,"b","e","g","i","n","{","m","a","t","r","i","x","}">>, <<"x">> }

\* the strings the callers pass: normalized LaTeX
DescribeInputs ==
    {Flatten(ts) : ts \in SeqsUpTo(DescribeTokens, MaxDescribeTokens)}
    \cup {normalize_latex(<<"a","=","c","/","d">>)}

\* blocks of a whole-page reply
MaxBlocks ==
    2

\* replies to the single-region prompt: those of the pipeline, and a formula
\* between dollar signs and spaces
ConvertReplies ==
    Replies \cup {[kind |-> "text", content |-> <<"$"," ","x"," ","$">>],
                  [kind |-> "text", content |-> <<"$"," ","$">>]}

\* replies to the formula-or-image prompt of extract_formula_from_image
ImageReplies ==
    {[kind |-> "raise", content |-> <<>>],
     [kind |-> "no_content", content |-> <<>>]}
    \cup {[kind |-> "text", content |-> t] :
            t \in { <<"F","O","R","M","U","L","A",":"," ","Y","E","S","\n","x">>,
                    <<"F","O","R","M","U","L","A",":"," ","Y","E","S","\n","$","x","$">>,
                    <<"F","O","R","M","U","L","A",":"," ","Y","E","S","\n",GRAVE,GRAVE,GRAVE,"l","a","t","e","x","\n","x","\n",GRAVE,GRAVE,GRAVE>>,
                    <<"f","o","r","m","u","l","a",":"," ","y","e","s","\n"," ","x"," ","\n">>,
                    <<"F","O","R","M","U","L","A",":"," ","N","O","\n","a"," ","c","h","a","r","t">> }}

\* the blocks of a whole-page reply: the text of the block, and the entry
\* (or none) a reader of the reply format takes from it
PageBlocks ==
    { [text |-> <<"F","O","R","M","U","L","A","_","S","T","A","R","T","\n","L","O","C","A","T","I","O","N",":"," ","p","\n","L","A","T","E","X",":"," ","x","\n","F","O","R","M","U","L","A","_","E","N","D","\n">>,
       entry |-> << [location |-> <<"p">>, latex |-> <<"x">>] >>],
      [text |-> <<"F","O","R","M","U","L","A","_","S","T","A","R","T","\n","L","A","T","E","X",":"," ","y","\n","F","O","R","M","U","L","A","_","E","N","D","\n">>,
       entry |-> << [location |-> <<>>, latex |-> <<"y">>] >>],
      [text |-> <<"F","O","R","M","U","L","A","_","S","T","A","R","T","\n","L","O","C","A","T","I","O","N",":"," ","p","\n","F","O","R","M","U","L","A","_","E","N","D","\n">>,
       entry |-> <<>>],
      [text |-> <<"F","O","R","M","U","L","A","_","S","T","A","R","T","\n","L","O","C","A","T","I","O","N",":"," ","p","\n","L","A","T","E","X",":","\n","F","O","R","M","U","L","A","_","E","N","D","\n">>,
       entry |-> <<>>],
      [text |-> <<"F","O","R","M","U","L","A","_","S","T","A","R","T","\n","L","O","C","A","T","I","O","N",":"," ","p","\n","L","A","T","E","X",":"," ","x","\n">>,
       entry |-> <<>>],
      [text |-> <<"F","O","R","M","U","L","A","_","S","T","A","R","T","\n","L","O","C","A","T","I","O","N",":"," ","q","\n","L","A","T","E","X",":"," ","$"," ","x"," ","$","\n","F","O","R","M","U","L","A","_","E","N","D","\n">>,
       entry |-> << [location |-> <<"q">>, latex |-> <<"x">>] >>],
      [text |-> <<"F","O","R","M","U","L","A","_","S","T","A","R","T","\n","L","O","C","A","T","I","O","N",":"," ","b","y"," ","t","h","e"," ","n","o","_","f","o","r","m","u","l","a","s"," ","n","o","t","e","\n","L","A","T","E","X",":"," ","y","\n","F","O","R","M","U","L","A","_","E","N","D","\n">>,
       entry |-> << [location |-> <<"b","y"," ","t","h","e"," ","n","o","_","f","o","r","m","u","l","a","s"," ","n","o","t","e">>, latex |-> <<"y">>] >>],
      [text |-> <<"F","O","R","M","U","L","A","_","S","T","A","R","T","\n","L","O","C","A","T","I","O","N",":"," ","r","\n","L","A","T","E","X",":"," ","$","$","\n","F","O","R","M","U","L","A","_","E","N","D","\n">>,
       entry |-> << [location |-> <<"r">>, latex |-> <<>>] >>] }

\* the text of a sequence of blocks
RECURSIVE BlocksText(_)
BlocksText(bs) ==
    IF bs = <<>> THEN <<>> ELSE Head(bs).text \o BlocksText(Tail(bs))

\* replies to the whole-page prompt: an exception, no content, the
\* sentinel, or up to MaxBlocks blocks
PageReplies ==
    {[kind |-> "raise", content |-> <<>>, blocks |-> <<>>],
     [kind |-> "no_content", content |-> <<>>, blocks |-> <<>>],
     [kind |-> "text", content |-> <<"N","O","_","F","O","R","M","U","L","A","S">>, blocks |-> <<>>]}
    \cup {[kind |-> "text", content |-> BlocksText(bs), blocks |-> bs] :
            bs \in SeqsUpTo(PageBlocks, MaxBlocks)}

\* parts of a markdown text for insert_formulas_into_markdown
MaxPlaceholderTokens ==
    3

\* the parts of a markdown text: formula labels as Docling exports them
\* (line 219), a label with one number only and prose;
\* placeholder says whether the part is a formula label of the pattern
PlaceholderParts ==
    { [text |-> <<"$","$","(","F","o","r","m","u","l","e"," ","2",".","3",")","$","$">>, placeholder |-> TRUE],
      [text |-> <<"$","$","(","F"," ","o"," ","r"," ","m"," ","u"," ","l"," ","e"," ","2",".","3",")","$","$">>, placeholder |-> TRUE],
      [text |-> <<"$","$","(","F","o","r","m","u","l","e"," ","2",")","$","$">>, placeholder |-> FALSE],
      [text |-> <<"t"," ">>, placeholder |-> FALSE] }

RECURSIVE PartsText(_)
PartsText(ps) ==
    IF ps = <<>> THEN <<>> ELSE Head(ps).text \o PartsText(Tail(ps))

\* the formulas of extract_all_page_formulas handed to
\* insert_formulas_into_markdown
InsertFormulas ==
    SeqsUpTo([latex : {<<"x">>, <<"a","$","$","(","F"," ","1",".","2",")","$","$","b">>}], MaxFormulas)

\* the calls of insert_formulas_into_markdown: the text, its parts and the
\* formulas
InsertInputs ==
    {[markdown_text |-> PartsText(ps), parts |-> ps, formulas |-> fs] :
        ps \in SeqsUpTo(PlaceholderParts, MaxPlaceholderTokens), fs \in InsertFormulas}

\* chunk indexes per source file
MaxChunkIndex ==
    1

\* n_results of a search
MaxTopK ==
    2

\* the ids add_chunks gives its chunks (line 53): the source file and the
\* chunk index
ChunkIds ==
    [source_file : {"a.pdf", "b.pdf"}, chunk_index : 0..MaxChunkIndex]

\* the source documents of two ingestions: two folders, two names
TwoSourcePaths ==
    { <<"/","d","/","a",".","p","d","f">>, <<"/","e","/","a",".","p","d","f">>, <<"/","d","/","b",".","p","d","f">> }

\* the words of a text and the chunk sizes of split_text
MaxWords ==
    4

MaxChunkSize ==
    6

\* the chunks the process has memory for: more than a terminating call
\* makes of MaxWords words
MemoryChunks ==
    MaxWords + 2

\* int(tokens * 0.75)
WordsOf(tokens) ==
    (3 * tokens) \div 4

\* replace_markers_with_latex inputs: markers as the Injector issues them
\* (pairwise distinct), LaTeX as the vision adapter returns it (None or a
\* non-empty string the model replied)
ResolveMarkers ==
    {Marker(0), Marker(1)}

ResolveLatex ==
    {None, <<"x">>, Marker(0), Marker(1)}

ResolveFormulas ==
    {fs \in SeqsUpTo([marker : ResolveMarkers, latex : ResolveLatex], MaxFormulas) :
        \A i, j \in 1..Len(fs) : i # j => fs[i].marker # fs[j].marker}

ResolveTexts ==
    {Flatten(ts) : ts \in SeqsUpTo({<<"t">>} \cup ResolveMarkers, MaxTextTokens)}

\* ------------------------------------------------------------------------
\* state
\* ------------------------------------------------------------------------

VARIABLES
    pc,               \* where ingest_pdf is: ingest, scan, convert, parse, done
    doc,              \* the pages of the source PDF
    gate,             \* what has_vector_formulas returned
    page_num,         \* create_marked_pdf_and_extract_formulas: page (1-based)
    ci,               \* ... and cluster of that page the loop is at
    formula_idx,      \* create_marked_pdf_and_extract_formulas: formula_idx
    formulas,         \* create_marked_pdf_and_extract_formulas: formulas
    raised,           \* an exception left create_marked_pdf_and_extract_formulas
    marked_pdf_path,  \* ingest_pdf: marked_pdf_path ("source" or "marked")
    vector_formulas,  \* ingest_pdf: vector_formulas
    conv_i,           \* convert_all_formulas_to_latex: the loop index (1-based)
    reply,            \* what the last vision call did
    dropped,          \* the formula whose marker the converter lost (0: none)
    convText,         \* parse_pdf: doc.export_to_markdown()
    text_content,     \* parse_pdf: text_content
    replaced_count,   \* replace_markers_with_latex: replaced_count
    replaced,         \* parse_pdf: replaced, the count of its summary line
    pdf_path,         \* ingest_pdf: pdf_path, the path of the source PDF
    disk,             \* the PDF files on disk: path -> the markers in the file
    vision_calls,     \* the calls of client.chat.completions.create so far
    parsed_path,      \* parse_pdf: pdf_path, the file the converter ran on
    use_marker_method,\* parse_pdf: use_marker_method
    markdown_files,   \* the markdown folder: path -> [text, descriptions]
    nPc, nIn, nOut, nOut2,                      \* calls of normalize_latex
    rPc, rText, rFormulas, rResult, rCount,     \* a call of replace_markers_with_latex
    cPc, cFn, cIn, cOut,                        \* a call of one of the other functions
    _client,          \* vector_store.py: the global _client of the process
    _collection,      \* vector_store.py: the global _collection of the process
    chroma,           \* the ids of the documents of the persistent collection
    sOp,              \* the vector-store operation that returned last
    sOut,             \* ... and what it returned
    tSrc,             \* two ingestions: pdf_path of each
    tPc,              \* ... where each is: scan, saved, converted, parsed
    tCount,           \* ... the clusters its scan accepts
    tIdx,             \* ... its formula_idx
    tFiles,           \* ... the artifacts on disk: path -> the last writer
    tWrites,          \* ... every write so far, as <<path, writer>>
    tRead,            \* ... the writers of the artifacts each has read
    xPc,              \* split_text: call, loop, returned, raised
    xWords,           \* split_text: len(words)
    xChunkSize,       \* split_text: chunk_size
    xOverlap,         \* split_text: overlap
    xStart,           \* split_text: start
    xChunks           \* split_text: chunks, each as the word range it joins

pipeVars ==
    <<pc, doc, gate, page_num, ci, formula_idx, formulas, raised, marked_pdf_path,
      vector_formulas, conv_i, reply, dropped, convText, text_content,
      replaced_count, replaced, pdf_path, disk, vision_calls, parsed_path,
      use_marker_method, markdown_files>>

normVars ==
    <<nPc, nIn, nOut, nOut2>>

resolveVars ==
    <<rPc, rText, rFormulas, rResult, rCount>>

callVars ==
    <<cPc, cFn, cIn, cOut>>

storeVars ==
    <<_client, _collection, chroma, sOp, sOut>>

twoVars ==
    <<tSrc, tPc, tCount, tIdx, tFiles, tWrites, tRead>>

splitVars ==
    <<xPc, xWords, xChunkSize, xOverlap, xStart, xChunks>>

vars ==
    <<pipeVars, normVars, resolveVars, callVars, storeVars, twoVars, splitVars>>

NoReply ==
    [kind |-> "none", content |-> <<>>]

PipeIdle ==
    /\ pc = "idle"
    /\ doc = <<>>
    /\ gate = FALSE
    /\ page_num = 1
    /\ ci = 1
    /\ formula_idx = 0
    /\ formulas = <<>>
    /\ raised = FALSE
    /\ marked_pdf_path = "source"
    /\ vector_formulas = <<>>
    /\ conv_i = 1
    /\ reply = NoReply
    /\ dropped = 0
    /\ convText = <<>>
    /\ text_content = <<>>
    /\ replaced_count = 0
    /\ replaced = 0
    /\ pdf_path = <<>>
    /\ disk = <<>>
    /\ vision_calls = 0
    /\ parsed_path = <<>>
    /\ use_marker_method = FALSE
    /\ markdown_files = <<>>

NormIdle ==
    /\ nPc = "idle"
    /\ nIn = <<>>
    /\ nOut = <<>>
    /\ nOut2 = <<>>

ResolveIdle ==
    /\ rPc = "idle"
    /\ rText = <<>>
    /\ rFormulas = <<>>
    /\ rResult = <<>>
    /\ rCount = 0

CallIdle ==
    /\ cPc = "idle"
    /\ cFn = "none"
    /\ cIn = <<>>
    /\ cOut = <<>>

TwoIdle ==
    /\ tSrc = <<>>
    /\ tPc = <<>>
    /\ tCount = <<>>
    /\ tIdx = <<>>
    /\ tFiles = <<>>
    /\ tWrites = {}
    /\ tRead = <<>>

SplitIdle ==
    /\ xPc = "idle"
    /\ xWords = 0
    /\ xChunkSize = 0
    /\ xOverlap = 0
    /\ xStart = 0
    /\ xChunks = <<>>

\* a process that has not touched the vector store, the persistent
\* collection empty
StoreIdle ==
    /\ _client = None
    /\ _collection = None
    /\ chroma = {}
    /\ sOp = "none"
    /\ sOut = None

\* ------------------------------------------------------------------------
\* ingest_pdf, Step 1: the gate and the scan
\* ------------------------------------------------------------------------

Init ==
    /\ pc = "ingest"
    /\ doc \in Docs
    /\ gate = FALSE
    /\ page_num = 1
    /\ ci = 1
    /\ formula_idx = 0
    /\ formulas = <<>>
    /\ raised = FALSE
    /\ marked_pdf_path = "source"
    /\ vector_formulas = <<>>
    /\ conv_i = 1
    /\ reply = NoReply
    /\ dropped = 0
    /\ convText = <<>>
    /\ text_content = <<>>
    /\ replaced_count = 0
    /\ replaced = 0
    /\ pdf_path \in SourcePaths
    /\ (pdf_path # DefaultSourcePath => doc \in SmallDocs)
    /\ disk = [q \in {pdf_path} |-> <<>>]
    /\ vision_calls = 0
    /\ parsed_path = <<>>
    /\ use_marker_method = FALSE
    /\ markdown_files = <<>>
    /\ NormIdle
    /\ ResolveIdle
    /\ CallIdle
    /\ StoreIdle
    /\ TwoIdle
    /\ SplitIdle

\* ingest_pdf: if has_vector_formulas(pdf_path) ... else, with
\* marked_pdf_path = str(pdf_path) and vector_formulas = [] set before
CheckGate ==
    /\ pc = "ingest"
    /\ gate' = has_vector_formulas(doc)
    /\ pc' = IF has_vector_formulas(doc) THEN "scan" ELSE "parse"
    /\ UNCHANGED <<doc, page_num, ci, formula_idx, formulas, raised, marked_pdf_path,
                   vector_formulas, conv_i, reply, dropped, convText, text_content,
                   replaced_count, replaced>>
    /\ UNCHANGED <<pdf_path, disk, vision_calls, parsed_path, use_marker_method, markdown_files>>
    /\ UNCHANGED <<normVars, resolveVars, callVars, storeVars, twoVars, splitVars>>

\* the cluster the loop of line 146 is at
CurrentCluster ==
    doc[page_num].clusters[ci]

AtCluster ==
    /\ pc = "scan"
    /\ page_num <= Len(doc)
    /\ ~doc[page_num].fails
    /\ ci <= Len(doc[page_num].clusters)

\* an exception inside create_marked_pdf_and_extract_formulas is caught
\* nowhere below ingest_pdf: its except clause prints a warning, and
\* marked_pdf_path and vector_formulas keep the values of lines 69-70
ScanAborts ==
    /\ raised' = TRUE
    /\ pc' = "parse"
    /\ UNCHANGED <<doc, gate, page_num, ci, formula_idx, formulas, marked_pdf_path,
                   vector_formulas, conv_i, reply, dropped, convText, text_content,
                   replaced_count, replaced>>
    /\ UNCHANGED <<pdf_path, disk, vision_calls, parsed_path, use_marker_method, markdown_files>>
    /\ UNCHANGED <<normVars, resolveVars, callVars, storeVars, twoVars, splitVars>>

\* page.find_tables() or page.cluster_drawings() raises
ScanPageRaise ==
    /\ pc = "scan"
    /\ page_num <= Len(doc)
    /\ ci = 1
    /\ doc[page_num].fails
    /\ ScanAborts

\* one of the three continue statements of lines 156-167
ScanReject ==
    /\ AtCluster
    /\ DetectorRejects(CurrentCluster.rect, doc[page_num].tables)
    /\ ci' = ci + 1
    /\ UNCHANGED <<pc, doc, gate, page_num, formula_idx, formulas, raised,
                   marked_pdf_path, vector_formulas, conv_i, reply, dropped, convText,
                   text_content, replaced_count, replaced>>
    /\ UNCHANGED <<pdf_path, disk, vision_calls, parsed_path, use_marker_method, markdown_files>>
    /\ UNCHANGED <<normVars, resolveVars, callVars, storeVars, twoVars, splitVars>>

\* page.get_pixmap() raises
ScanRenderRaise ==
    /\ AtCluster
    /\ ~DetectorRejects(CurrentCluster.rect, doc[page_num].tables)
    /\ CurrentCluster.render = "raise"
    /\ ScanAborts

\* a blank discard that takes a sequence number with it
ScanBlankConsumesIndex ==
    /\ AtCluster
    /\ ~DetectorRejects(CurrentCluster.rect, doc[page_num].tables)
    /\ CurrentCluster.render = "ok"
    /\ CurrentCluster.colors < MinColors
    /\ ci' = ci + 1
    /\ formula_idx' = formula_idx + 1
    /\ UNCHANGED <<pc, doc, gate, page_num, formulas, raised,
                   marked_pdf_path, vector_formulas, conv_i, reply, dropped, convText,
                   text_content, replaced_count, replaced>>
    /\ UNCHANGED <<pdf_path, disk, vision_calls, parsed_path, use_marker_method, markdown_files>>
    /\ UNCHANGED <<normVars, resolveVars, callVars, storeVars, twoVars, splitVars>>

\* if pix.color_count() < 3: continue
ScanBlank ==
    /\ AtCluster
    /\ ~DetectorRejects(CurrentCluster.rect, doc[page_num].tables)
    /\ CurrentCluster.render = "ok"
    /\ CurrentCluster.colors < MinColors
    /\ ci' = ci + 1
    /\ UNCHANGED <<pc, doc, gate, page_num, formula_idx, formulas, raised,
                   marked_pdf_path, vector_formulas, conv_i, reply, dropped, convText,
                   text_content, replaced_count, replaced>>
    /\ UNCHANGED <<pdf_path, disk, vision_calls, parsed_path, use_marker_method, markdown_files>>
    /\ UNCHANGED <<normVars, resolveVars, callVars, storeVars, twoVars, splitVars>>

\* lines 178-209: the marker is made, the image saved, the marker inserted,
\* the record appended (its latex key is set by the conversion; .get("latex")
\* of the record is None until then), formula_idx incremented
ScanAccept ==
    /\ AtCluster
    /\ ~DetectorRejects(CurrentCluster.rect, doc[page_num].tables)
    /\ CurrentCluster.render = "ok"
    /\ CurrentCluster.colors >= MinColors
    /\ formulas' = Append(formulas, [marker |-> Marker(formula_idx),
                                     page_num |-> page_num,
                                     rect |-> CurrentCluster.rect,
                                     index |-> formula_idx,
                                     latex |-> None])
    /\ formula_idx' = formula_idx + 1
    /\ ci' = ci + 1
    /\ UNCHANGED <<pc, doc, gate, page_num, raised, marked_pdf_path, vector_formulas,
                   conv_i, reply, dropped, convText, text_content, replaced_count,
                   replaced>>
    /\ UNCHANGED <<pdf_path, disk, vision_calls, parsed_path, use_marker_method, markdown_files>>
    /\ UNCHANGED <<normVars, resolveVars, callVars, storeVars, twoVars, splitVars>>

\* the clusters of the page are exhausted: the next page
ScanNextPage ==
    /\ pc = "scan"
    /\ page_num <= Len(doc)
    /\ ~doc[page_num].fails
    /\ ci > Len(doc[page_num].clusters)
    /\ page_num' = page_num + 1
    /\ ci' = 1
    /\ UNCHANGED <<pc, doc, gate, formula_idx, formulas, raised, marked_pdf_path,
                   vector_formulas, conv_i, reply, dropped, convText, text_content,
                   replaced_count, replaced>>
    /\ UNCHANGED <<pdf_path, disk, vision_calls, parsed_path, use_marker_method, markdown_files>>
    /\ UNCHANGED <<normVars, resolveVars, callVars, storeVars, twoVars, splitVars>>

\* a return without candidates that saves a marked copy all the same and
\* hands it to ingest_pdf
ScanDoneEmptySavesCopy ==
    /\ pc = "scan"
    /\ page_num > Len(doc)
    /\ formulas = <<>>
    /\ disk' = WriteFile(disk, MarkedPathOf(pdf_path), <<>>)
    /\ marked_pdf_path' = "marked"
    /\ pc' = "parse"
    /\ UNCHANGED <<doc, gate, page_num, ci, formula_idx, formulas, raised,
                   vector_formulas, conv_i, reply, dropped, convText,
                   text_content, replaced_count, replaced>>
    /\ UNCHANGED <<pdf_path, vision_calls, parsed_path, use_marker_method, markdown_files>>
    /\ UNCHANGED <<normVars, resolveVars, callVars, storeVars, twoVars, splitVars>>

\* lines 213-215 and process_pdf_with_markers lines 368-370: no formulas,
\* the source path and an empty list go back to ingest_pdf
ScanDoneEmpty ==
    /\ pc = "scan"
    /\ page_num > Len(doc)
    /\ formulas = <<>>
    /\ pc' = "parse"
    /\ UNCHANGED <<doc, gate, page_num, ci, formula_idx, formulas, raised,
                   marked_pdf_path, vector_formulas, conv_i, reply, dropped, convText,
                   text_content, replaced_count, replaced>>
    /\ UNCHANGED <<pdf_path, disk, vision_calls, parsed_path, use_marker_method, markdown_files>>
    /\ UNCHANGED <<normVars, resolveVars, callVars, storeVars, twoVars, splitVars>>

\* lines 217-225: the marked copy is saved, the conversion starts
ScanDoneMarked ==
    /\ pc = "scan"
    /\ page_num > Len(doc)
    /\ formulas # <<>>
    /\ disk' = WriteFile(disk, MarkedPathOf(pdf_path), InsertedMarkers(formulas))
    /\ pc' = "convert"
    /\ conv_i' = 1
    /\ UNCHANGED <<doc, gate, page_num, ci, formula_idx, formulas, raised,
                   marked_pdf_path, vector_formulas, reply, dropped, convText,
                   text_content, replaced_count, replaced>>
    /\ UNCHANGED <<pdf_path, vision_calls, parsed_path, use_marker_method, markdown_files>>
    /\ UNCHANGED <<normVars, resolveVars, callVars, storeVars, twoVars, splitVars>>

\* ------------------------------------------------------------------------
\* ingest_pdf, Step 1 continued: convert_all_formulas_to_latex
\* ------------------------------------------------------------------------

\* one iteration of the loop of lines 293-304
ConvertOne ==
    /\ pc = "convert"
    /\ conv_i <= Len(formulas)
    /\ \E r \in Replies :
          /\ reply' = r
          /\ formulas' =
                 [formulas EXCEPT ![conv_i].latex =
                      IF Truthy(convert_formula_image_to_latex(r))
                      THEN convert_formula_image_to_latex(r)
                      ELSE None]
    /\ conv_i' = conv_i + 1
    /\ vision_calls' = vision_calls + 1
    /\ UNCHANGED <<pc, doc, gate, page_num, ci, formula_idx, raised, marked_pdf_path,
                   vector_formulas, dropped, convText, text_content, replaced_count,
                   replaced>>
    /\ UNCHANGED <<pdf_path, disk, parsed_path, use_marker_method, markdown_files>>
    /\ UNCHANGED <<normVars, resolveVars, callVars, storeVars, twoVars, splitVars>>

\* the list goes back through process_pdf_with_markers to ingest_pdf line 77
ConvertDone ==
    /\ pc = "convert"
    /\ conv_i > Len(formulas)
    /\ marked_pdf_path' = "marked"
    /\ vector_formulas' = formulas
    /\ reply' = NoReply
    /\ pc' = "parse"
    /\ UNCHANGED <<doc, gate, page_num, ci, formula_idx, formulas, raised, conv_i,
                   dropped, convText, text_content, replaced_count, replaced>>
    /\ UNCHANGED <<pdf_path, disk, vision_calls, parsed_path, use_marker_method, markdown_files>>
    /\ UNCHANGED <<normVars, resolveVars, callVars, storeVars, twoVars, splitVars>>

\* ------------------------------------------------------------------------
\* ingest_pdf, Step 2: parse_pdf
\* ------------------------------------------------------------------------

\* doc.export_to_markdown() of the marked copy: running text with the
\* markers of the formulas in it, except the one the converter lost
RECURSIVE ConverterText(_, _, _)
ConverterText(fs, lost, k) ==
    IF k > Len(fs) THEN <<"t">>
    ELSE <<"t">> \o (IF k = lost THEN <<>> ELSE fs[k].marker)
         \o ConverterText(fs, lost, k + 1)

\* parse_pdf on marked_pdf_path with use_marker_method = bool(vector_formulas)
Parse ==
    /\ pc = "parse"
    /\ \E lost \in 0..Len(vector_formulas) :
          LET markdown == IF marked_pdf_path = "marked"
                          THEN ConverterText(vector_formulas, lost, 1)
                          ELSE <<"t">>
              resolved == replace_markers_with_latex(markdown, vector_formulas)
          IN  /\ dropped' = lost
              /\ convText' = markdown
              /\ IF vector_formulas # <<>>
                 THEN /\ text_content' = resolved.result
                      /\ replaced_count' = resolved.replaced_count
                      /\ replaced' = CountWithLatex(vector_formulas)
                 ELSE /\ text_content' = markdown
                      /\ UNCHANGED <<replaced_count, replaced>>
    /\ parsed_path' = (IF marked_pdf_path = "marked"
                       THEN MarkedPathOf(pdf_path) ELSE pdf_path)
    /\ use_marker_method' = (vector_formulas # <<>>)
    /\ markdown_files' =
           WriteFile(markdown_files, MarkdownPathOf(parsed_path'),
                     [text |-> text_content', descriptions |-> FALSE])
    /\ pc' = "done"
    /\ UNCHANGED <<doc, gate, page_num, ci, formula_idx, formulas, raised,
                   marked_pdf_path, vector_formulas, conv_i, reply>>
    /\ UNCHANGED <<pdf_path, disk, vision_calls>>
    /\ UNCHANGED <<normVars, resolveVars, callVars, storeVars, twoVars, splitVars>>

\* ------------------------------------------------------------------------
\* ingest_pdf, Step 3: the image descriptions
\* ------------------------------------------------------------------------

\* pipeline.py lines 111-113 and save_image_descriptions_to_markdown: with
\* regular images left, the descriptions are appended to the markdown file
\* of the source stem if that file exists
SaveImageDescriptions ==
    /\ pc = "done"
    /\ \E images \in BOOLEAN :
          IF images /\ MarkdownPathOf(pdf_path) \in DOMAIN markdown_files
          THEN markdown_files' =
                   [markdown_files EXCEPT ![MarkdownPathOf(pdf_path)].descriptions = TRUE]
          ELSE UNCHANGED markdown_files
    /\ pc' = "described"
    /\ UNCHANGED <<doc, gate, page_num, ci, formula_idx, formulas, raised,
                   marked_pdf_path, vector_formulas, conv_i, reply, dropped, convText,
                   text_content, replaced_count, replaced>>
    /\ UNCHANGED <<pdf_path, disk, vision_calls, parsed_path, use_marker_method>>
    /\ UNCHANGED <<normVars, resolveVars, callVars, storeVars, twoVars, splitVars>>

Next ==
    \/ CheckGate
    \/ ScanPageRaise
    \/ ScanReject
    \/ ScanRenderRaise
    \/ ScanBlank
    \/ ScanAccept
    \/ ScanNextPage
    \/ ScanDoneEmpty
    \/ ScanDoneMarked
    \/ ConvertOne
    \/ ConvertDone
    \/ Parse
    \/ SaveImageDescriptions

Spec ==
    Init /\ [][Next]_vars

\* ------------------------------------------------------------------------
\* calls of normalize_latex
\* ------------------------------------------------------------------------

InitNorm ==
    /\ PipeIdle
    /\ ResolveIdle
    /\ CallIdle
    /\ StoreIdle
    /\ TwoIdle
    /\ SplitIdle
    /\ nPc = "input"
    /\ nIn \in NormInputs
    /\ nOut = <<>>
    /\ nOut2 = <<>>

\* y = normalize_latex(x)
NormalizeOnce ==
    /\ nPc = "input"
    /\ nOut' = normalize_latex(nIn)
    /\ nPc' = "once"
    /\ UNCHANGED <<nIn, nOut2>>
    /\ UNCHANGED <<pipeVars, resolveVars, callVars, storeVars, twoVars, splitVars>>

\* z = normalize_latex(y)
NormalizeTwice ==
    /\ nPc = "once"
    /\ nOut2' = normalize_latex(nOut)
    /\ nPc' = "twice"
    /\ UNCHANGED <<nIn, nOut>>
    /\ UNCHANGED <<pipeVars, resolveVars, callVars, storeVars, twoVars, splitVars>>

NextNorm ==
    \/ NormalizeOnce
    \/ NormalizeTwice

SpecNorm ==
    InitNorm /\ [][NextNorm]_vars

\* ------------------------------------------------------------------------
\* a call of replace_markers_with_latex
\* ------------------------------------------------------------------------

InitResolve ==
    /\ PipeIdle
    /\ NormIdle
    /\ CallIdle
    /\ StoreIdle
    /\ TwoIdle
    /\ SplitIdle
    /\ rPc = "input"
    /\ rText \in ResolveTexts
    /\ rFormulas \in ResolveFormulas
    /\ rResult = <<>>
    /\ rCount = 0

Resolve ==
    /\ rPc = "input"
    /\ rResult' = replace_markers_with_latex(rText, rFormulas).result
    /\ rCount' = replace_markers_with_latex(rText, rFormulas).replaced_count
    /\ rPc' = "resolved"
    /\ UNCHANGED <<rText, rFormulas>>
    /\ UNCHANGED <<pipeVars, normVars, callVars, storeVars, twoVars, splitVars>>

NextResolve ==
    Resolve

SpecResolve ==
    InitResolve /\ [][NextResolve]_vars

\* ------------------------------------------------------------------------
\* single calls of the other functions
\* ------------------------------------------------------------------------

\* the calls of the model: the function and its argument
CallInputs ==
    [fn : {"normalize_latex"},
     arg : FractionInputs \cup LongFractionInputs \cup SubscriptInputs \cup GreekInputs]
    \cup [fn : {"create_formula_description"}, arg : DescribeInputs]
    \cup [fn : {"convert_formula_image_to_latex"}, arg : ConvertReplies]
    \cup [fn : {"extract_formula_from_image"}, arg : ImageReplies]
    \cup [fn : {"extract_formulas_from_page"}, arg : PageReplies]
    \cup [fn : {"insert_formulas_into_markdown"}, arg : InsertInputs]

InitCall ==
    /\ PipeIdle
    /\ NormIdle
    /\ ResolveIdle
    /\ StoreIdle
    /\ TwoIdle
    /\ SplitIdle
    /\ cPc = "input"
    /\ \E c \in CallInputs : cFn = c.fn /\ cIn = c.arg
    /\ cOut = <<>>

\* cOut = normalize_latex(cIn)
CallNormalize ==
    /\ cPc = "input"
    /\ cFn = "normalize_latex"
    /\ cOut' = normalize_latex(cIn)
    /\ cPc' = "returned"
    /\ UNCHANGED <<cFn, cIn>>
    /\ UNCHANGED <<pipeVars, normVars, resolveVars, storeVars, twoVars, splitVars>>

\* cOut = create_formula_description(cIn)
CallDescribe ==
    /\ cPc = "input"
    /\ cFn = "create_formula_description"
    /\ cOut' = create_formula_description(cIn)
    /\ cPc' = "returned"
    /\ UNCHANGED <<cFn, cIn>>
    /\ UNCHANGED <<pipeVars, normVars, resolveVars, storeVars, twoVars, splitVars>>

\* cOut = convert_formula_image_to_latex(image_path), the vision call
\* answering cIn
CallConvert ==
    /\ cPc = "input"
    /\ cFn = "convert_formula_image_to_latex"
    /\ cOut' = convert_formula_image_to_latex(cIn)
    /\ cPc' = "returned"
    /\ UNCHANGED <<cFn, cIn>>
    /\ UNCHANGED <<pipeVars, normVars, resolveVars, storeVars, twoVars, splitVars>>

\* cOut = extract_formula_from_image(image_path), the vision call answering
\* cIn
CallExtractImage ==
    /\ cPc = "input"
    /\ cFn = "extract_formula_from_image"
    /\ cOut' = extract_formula_from_image(cIn)
    /\ cPc' = "returned"
    /\ UNCHANGED <<cFn, cIn>>
    /\ UNCHANGED <<pipeVars, normVars, resolveVars, storeVars, twoVars, splitVars>>

\* cOut = extract_formulas_from_page(image_path, 1), the vision call
\* answering cIn
CallExtractPage ==
    /\ cPc = "input"
    /\ cFn = "extract_formulas_from_page"
    /\ cOut' = extract_formulas_from_page(cIn, 1)
    /\ cPc' = "returned"
    /\ UNCHANGED <<cFn, cIn>>
    /\ UNCHANGED <<pipeVars, normVars, resolveVars, storeVars, twoVars, splitVars>>

\* cOut = insert_formulas_into_markdown(markdown_text, formulas)
CallInsert ==
    /\ cPc = "input"
    /\ cFn = "insert_formulas_into_markdown"
    /\ cOut' = insert_formulas_into_markdown(cIn.markdown_text, cIn.formulas)
    /\ cPc' = "returned"
    /\ UNCHANGED <<cFn, cIn>>
    /\ UNCHANGED <<pipeVars, normVars, resolveVars, storeVars, twoVars, splitVars>>

NextCall ==
    \/ CallNormalize
    \/ CallDescribe
    \/ CallConvert
    \/ CallExtractImage
    \/ CallExtractPage
    \/ CallInsert

SpecCall ==
    InitCall /\ [][NextCall]_vars

\* ------------------------------------------------------------------------
\* vector store: add_chunks, search, get_stats, clear_collection
\* ------------------------------------------------------------------------

InitStore ==
    /\ PipeIdle
    /\ NormIdle
    /\ ResolveIdle
    /\ CallIdle
    /\ StoreIdle
    /\ TwoIdle
    /\ SplitIdle

\* get_collection (lines 18-34): the globals after the call; the
\* collection is got or created, its documents stay
GetCollection ==
    IF _collection = None
    THEN /\ _client' = <<"client">>
         /\ _collection' = <<"collection">>
    ELSE UNCHANGED <<_client, _collection>>

\* add_chunks(chunks): nothing is done for an empty list
AddChunks ==
    /\ \E chunks \in SUBSET ChunkIds :
          IF chunks = {}
          THEN /\ sOut' = 0
               /\ UNCHANGED <<_client, _collection, chroma>>
          ELSE /\ GetCollection
               /\ chroma' = chroma \cup chunks
               /\ sOut' = Cardinality(chunks)
    /\ sOp' = "add_chunks"
    /\ UNCHANGED <<pipeVars, normVars, resolveVars, callVars, twoVars, splitVars>>

\* search(query_embedding, top_k): the number of results
Search ==
    /\ GetCollection
    /\ \E top_k \in 1..MaxTopK : sOut' = Min(top_k, Cardinality(chroma))
    /\ sOp' = "search"
    /\ UNCHANGED chroma
    /\ UNCHANGED <<pipeVars, normVars, resolveVars, callVars, twoVars, splitVars>>

\* get_stats(): total_documents
GetStats ==
    /\ GetCollection
    /\ sOut' = Cardinality(chroma)
    /\ sOp' = "get_stats"
    /\ UNCHANGED chroma
    /\ UNCHANGED <<pipeVars, normVars, resolveVars, callVars, twoVars, splitVars>>

\* clear_collection() (lines 115-125), called by reset and the CLI clear
\* command: the collection is deleted only when the process has a client
\* already; get_collection then gets or creates it
ClearCollection ==
    /\ IF _client # None
       THEN /\ chroma' = {}
            /\ _client' = _client
            /\ _collection' = <<"collection">>
       ELSE /\ chroma' = chroma
            /\ _client' = <<"client">>
            /\ _collection' = <<"collection">>
    /\ sOut' = None
    /\ sOp' = "clear_collection"
    /\ UNCHANGED <<pipeVars, normVars, resolveVars, callVars, twoVars, splitVars>>

\* the process ends: its globals are gone, the persistent collection stays
ProcessExit ==
    /\ sOp # "none"
    /\ _client' = None
    /\ _collection' = None
    /\ sOp' = "none"
    /\ sOut' = None
    /\ UNCHANGED chroma
    /\ UNCHANGED <<pipeVars, normVars, resolveVars, callVars, twoVars, splitVars>>

NextStore ==
    \/ AddChunks
    \/ Search
    \/ GetStats
    \/ ClearCollection
    \/ ProcessExit

SpecStore ==
    InitStore /\ [][NextStore]_vars

\* ------------------------------------------------------------------------
\* two ingestions of two source documents, one after the other or
\* interleaved: the artifacts of the marker method
\* ------------------------------------------------------------------------

InitTwo ==
    /\ PipeIdle
    /\ NormIdle
    /\ ResolveIdle
    /\ CallIdle
    /\ StoreIdle
    /\ SplitIdle
    /\ tSrc \in {s \in [1..2 -> TwoSourcePaths] : s[1] # s[2]}
    /\ tPc = [i \in 1..2 |-> "scan"]
    /\ tCount \in [1..2 -> 1..MaxFormulas]
    /\ tIdx = [i \in 1..2 |-> 0]
    /\ tFiles = <<>>
    /\ tWrites = {}
    /\ tRead = [i \in 1..2 |-> {}]

\* lines 182-184: pix.save(str(image_path)) for an accepted cluster
TwoSaveImage(i) ==
    /\ tPc[i] = "scan"
    /\ tIdx[i] < tCount[i]
    /\ tFiles' = WriteFile(tFiles, FormulaImagePathOf(tSrc[i], tIdx[i]), i)
    /\ tWrites' = tWrites \cup {<<FormulaImagePathOf(tSrc[i], tIdx[i]), i>>}
    /\ tIdx' = [tIdx EXCEPT ![i] = tIdx[i] + 1]
    /\ UNCHANGED <<tSrc, tPc, tCount, tRead>>
    /\ UNCHANGED <<pipeVars, normVars, resolveVars, callVars, storeVars, splitVars>>

\* lines 217-220: doc.save(str(marked_pdf_path)) after the scan
TwoSaveMarked(i) ==
    /\ tPc[i] = "scan"
    /\ tIdx[i] = tCount[i]
    /\ tFiles' = WriteFile(tFiles, MarkedPathOf(tSrc[i]), i)
    /\ tWrites' = tWrites \cup {<<MarkedPathOf(tSrc[i]), i>>}
    /\ tPc' = [tPc EXCEPT ![i] = "saved"]
    /\ UNCHANGED <<tSrc, tCount, tIdx, tRead>>
    /\ UNCHANGED <<pipeVars, normVars, resolveVars, callVars, storeVars, splitVars>>

\* convert_all_formulas_to_latex: every formula image is read back
TwoConvert(i) ==
    /\ tPc[i] = "saved"
    /\ tRead' = [tRead EXCEPT ![i] =
                    tRead[i] \cup {tFiles[FormulaImagePathOf(tSrc[i], k)] :
                                      k \in 0..(tCount[i] - 1)}]
    /\ tPc' = [tPc EXCEPT ![i] = "converted"]
    /\ UNCHANGED <<tSrc, tCount, tIdx, tFiles, tWrites>>
    /\ UNCHANGED <<pipeVars, normVars, resolveVars, callVars, storeVars, splitVars>>

\* parse_pdf(marked_pdf_path, ...): the converter reads the marked copy
TwoParse(i) ==
    /\ tPc[i] = "converted"
    /\ tRead' = [tRead EXCEPT ![i] = tRead[i] \cup {tFiles[MarkedPathOf(tSrc[i])]}]
    /\ tPc' = [tPc EXCEPT ![i] = "parsed"]
    /\ UNCHANGED <<tSrc, tCount, tIdx, tFiles, tWrites>>
    /\ UNCHANGED <<pipeVars, normVars, resolveVars, callVars, storeVars, splitVars>>

NextTwo ==
    \E i \in 1..2 :
        \/ TwoSaveImage(i)
        \/ TwoSaveMarked(i)
        \/ TwoConvert(i)
        \/ TwoParse(i)

SpecTwo ==
    InitTwo /\ [][NextTwo]_vars

\* ------------------------------------------------------------------------
\* chunker: split_text
\* ------------------------------------------------------------------------

\* a text of up to MaxWords words, a positive chunk_size and an overlap
\* below it
InitSplit ==
    /\ PipeIdle
    /\ NormIdle
    /\ ResolveIdle
    /\ CallIdle
    /\ StoreIdle
    /\ TwoIdle
    /\ xPc = "call"
    /\ xWords \in 0..MaxWords
    /\ xChunkSize \in 1..MaxChunkSize
    /\ xOverlap \in 0..(xChunkSize - 1)
    /\ xStart = 0
    /\ xChunks = <<>>

\* lines 26-37: [] for a text without words, else start = 0 and the loop
SplitCall ==
    /\ xPc = "call"
    /\ xPc' = IF xWords = 0 THEN "returned" ELSE "loop"
    /\ UNCHANGED <<xWords, xChunkSize, xOverlap, xStart, xChunks>>
    /\ UNCHANGED <<pipeVars, normVars, resolveVars, callVars, storeVars, twoVars>>

\* one iteration of the loop of lines 38-45: the chunk words[start:end],
\* the new start, and the break or the loop test
SplitIterate ==
    /\ xPc = "loop"
    /\ Len(xChunks) < MemoryChunks
    /\ LET end == xStart + WordsOf(xChunkSize)
       IN  /\ xChunks' = Append(xChunks, [from |-> xStart, to |-> Min(end, xWords)])
           /\ xStart' = end - WordsOf(xOverlap)
           /\ xPc' = IF end - WordsOf(xOverlap) >= xWords THEN "returned" ELSE "loop"
    /\ UNCHANGED <<xWords, xChunkSize, xOverlap>>
    /\ UNCHANGED <<pipeVars, normVars, resolveVars, callVars, storeVars, twoVars>>

\* chunks.append with no memory left: MemoryError leaves split_text
SplitMemoryError ==
    /\ xPc = "loop"
    /\ Len(xChunks) = MemoryChunks
    /\ xPc' = "raised"
    /\ UNCHANGED <<xWords, xChunkSize, xOverlap, xStart, xChunks>>
    /\ UNCHANGED <<pipeVars, normVars, resolveVars, callVars, storeVars, twoVars>>

NextSplit ==
    \/ SplitCall
    \/ SplitIterate
    \/ SplitMemoryError

SpecSplit ==
    InitSplit /\ [][NextSplit]_vars

\* the interpreter keeps running the call
SpecSplitFair ==
    InitSplit /\ [][NextSplit]_vars /\ WF_vars(NextSplit)

\* ------------------------------------------------------------------------
\* reference definitions of the properties
\* ------------------------------------------------------------------------

\* "##FORMULA_" + k zero-padded to three digits + "##", for k < 1000
ExpectedMarker(k) ==
    <<"#","#","F","O","R","M","U","L","A","_">>
    \o <<DigitChar((k \div 100) % 10), DigitChar((k \div 10) % 10), DigitChar(k % 10)>>
    \o <<"#","#">>

\* a cluster no filter rejects and the blank test keeps
Acceptable(cl, tables) ==
    ~DetectorRejects(cl.rect, tables) /\ cl.colors >= MinColors

\* the accepted clusters of page p among its first n clusters, in emission
\* order, as <<page, rect>>
RECURSIVE AcceptedOnPage(_, _, _)
AcceptedOnPage(d, p, n) ==
    IF n = 0 THEN <<>>
    ELSE AcceptedOnPage(d, p, n - 1)
         \o (IF Acceptable(d[p].clusters[n], d[p].tables)
             THEN << <<p, d[p].clusters[n].rect>> >> ELSE <<>>)

\* the accepted clusters in discovery order before position (p, c)
RECURSIVE AcceptedBefore(_, _, _)
AcceptedBefore(d, p, c) ==
    IF p > Len(d) THEN AcceptedBefore(d, Len(d), Len(d[Len(d)].clusters) + 1)
    ELSE (IF p = 1 THEN <<>>
          ELSE AcceptedBefore(d, p - 1, Len(d[p - 1].clusters) + 1))
         \o AcceptedOnPage(d, p, c - 1)

\* where the formulas of a list were found, as <<page, rect>>
Positions(fs) ==
    [k \in 1..Len(fs) |-> <<fs[k].page_num, fs[k].rect>>]

\* a page whose scan raises: its tables or clusters cannot be read, or the
\* rendering of a cluster no filter rejects raises
PageScanFails(page) ==
    \/ page.fails
    \/ \E c \in 1..Len(page.clusters) :
          /\ ~DetectorRejects(page.clusters[c].rect, page.tables)
          /\ page.clusters[c].render = "raise"

\* the candidates of the pages that scan, in discovery order
RECURSIVE CandidatesOfScannablePages(_, _)
CandidatesOfScannablePages(d, p) ==
    IF p = 0 THEN <<>>
    ELSE CandidatesOfScannablePages(d, p - 1)
         \o (IF PageScanFails(d[p]) THEN <<>>
             ELSE AcceptedOnPage(d, p, Len(d[p].clusters)))

\* the text with every occurrence of the marker of a formula with LaTeX
\* replaced by its display block, everything else copied
RECURSIVE ExpectedResolved(_, _, _)
ExpectedResolved(text, fs, i) ==
    IF i > Len(text) THEN <<>>
    ELSE IF \E k \in 1..Len(fs) : Truthy(fs[k].latex) /\ StartsAt(text, i, fs[k].marker)
    THEN LET k == CHOOSE k \in 1..Len(fs) :
                      Truthy(fs[k].latex) /\ StartsAt(text, i, fs[k].marker)
         IN  <<"\n", "\n", "$", "$">> \o fs[k].latex \o <<"$", "$", "\n", "\n">>
             \o ExpectedResolved(text, fs, i + Len(fs[k].marker))
    ELSE <<text[i]>> \o ExpectedResolved(text, fs, i + 1)

\* the formulas whose marker was substituted in the converter text
RECURSIVE Substituted(_, _)
Substituted(text, fs) ==
    IF fs = <<>> THEN 0
    ELSE (IF Truthy(Head(fs).latex) /\ Contains(text, Head(fs).marker) THEN 1 ELSE 0)
         + Substituted(text, Tail(fs))

\* r lies entirely inside t
Inside(r, t) ==
    t.x0 <= r.x0 /\ r.x1 <= t.x1 /\ t.y0 <= r.y0 /\ r.y1 <= t.y1

InsideATable(rect, tables) ==
    \E t \in 1..Len(tables) : Inside(rect, tables[t])

\* the overlap with one of the tables is more than half of the cluster
OverHalfInOneTable(rect, tables) ==
    \E t \in 1..Len(tables) : 2 * GetArea(Intersect(rect, tables[t])) > GetArea(rect)

\* create_marked_pdf_and_extract_formulas run on the whole document raises
\* nowhere and accepts at least one cluster
DetectorWouldAccept(d) ==
    /\ \A p \in 1..Len(d) :
          /\ ~d[p].fails
          /\ \A c \in 1..Len(d[p].clusters) :
                ~DetectorRejects(d[p].clusters[c].rect, d[p].tables)
                    => d[p].clusters[c].render = "ok"
    /\ \E p \in 1..Len(d) : \E c \in 1..Len(d[p].clusters) :
          Acceptable(d[p].clusters[c], d[p].tables)

\* no whitespace at either end and no two whitespace characters in a row
WhitespaceNormal(s) ==
    /\ s # <<>> => ~IsSpace(s[1]) /\ ~IsSpace(s[Len(s)])
    /\ \A i \in 1..(Len(s) - 1) : ~(IsSpace(s[i]) /\ IsSpace(s[i + 1]))

\* alphanumeric characters around one "/", more than one of them on a side
IsLongFraction(s) ==
    /\ Len(s) >= 4
    /\ \E k \in 2..(Len(s) - 1) :
          /\ s[k] = "/"
          /\ \A i \in (1..Len(s)) \ {k} : IsAlnum(s[i])

\* the lists with the same formulas in any order
Reorderings(fs) ==
    { [i \in 1..Len(fs) |-> fs[p[i]]] :
        p \in {q \in [1..Len(fs) -> 1..Len(fs)] :
                  \A i, j \in 1..Len(fs) : i # j => q[i] # q[j]} }

\* the header and footer bands: y1 < 70, y0 > page height - 70
InHeaderFooterBand(rect) ==
    rect.y1 < 70 \/ rect.y0 > PageHeight - 70

\* a reply of the vision call with the formula x in it, bare, between
\* dollar signs or in a code fence
CarriesX(r) ==
    /\ r.kind = "text"
    /\ r.content \in { <<"x">>, <<"$", "x", "$">>,
                       <<GRAVE,GRAVE,GRAVE,"x",GRAVE,GRAVE,GRAVE>> }

\* a reply of the vision call that carries no formula: an exception, a
\* timeout, no content, or text that is blank or only code fences
FailedReply(r) ==
    \/ r.kind \in {"raise", "timeout", "no_content"}
    \/ /\ r.kind = "text"
       /\ r.content \in { <<>>, <<" ">>,
                          <<GRAVE,GRAVE,GRAVE,"l","a","t","e","x","\n",GRAVE,GRAVE,GRAVE>> }

\* " " and the tag when the marker is present, nothing otherwise
TagIf(present, tag) ==
    IF present THEN <<" ">> \o tag ELSE <<>>

\* the tags a description has to carry after its generic tag, for the
\* structural markers of the string, in the fixed order
ExpectedTagText(latex) ==
    TagIf(Contains(latex, <<BS,"f","r","a","c">>), <<"f","r","a","c","t","i","o","n","/","r","a","t","i","o">>)
    \o TagIf(Contains(latex, <<BS,"s","u","m">>), <<"s","u","m","m","a","t","i","o","n">>)
    \o TagIf(Contains(latex, <<BS,"i","n","t">>), <<"i","n","t","e","g","r","a","l">>)
    \o TagIf(Contains(latex, <<BS,"p","r","o","d">>), <<"p","r","o","d","u","c","t">>)
    \o TagIf(Contains(latex, <<BS,"l","i","m">>), <<"l","i","m","i","t">>)
    \o TagIf(Contains(latex, <<BS,"s","i","n">>) \/ Contains(latex, <<BS,"c","o","s">>)
             \/ Contains(latex, <<BS,"t","a","n">>), <<"t","r","i","g","o","n","o","m","e","t","r","i","c">>)
    \o TagIf(Contains(latex, <<BS,"s","q","r","t">>), <<"s","q","u","a","r","e"," ","r","o","o","t">>)
    \o TagIf(Contains(latex, <<"=">>), <<"e","q","u","a","t","i","o","n">>)
    \o TagIf(Contains(latex, <<BS,"g","e","q">>) \/ Contains(latex, <<BS,"l","e","q">>)
             \/ Contains(latex, <<">">>) \/ Contains(latex, <<"<">>), <<"i","n","e","q","u","a","l","i","t","y">>)
    \o TagIf(Contains(latex, <<BS,"p","a","r","t","i","a","l">>), <<"p","a","r","t","i","a","l"," ","d","e","r","i","v","a","t","i","v","e">>)
    \o TagIf(Contains(latex, <<"\n","a","b","l","a">>) \/ Contains(latex, <<BS,"g","r","a","d">>), <<"g","r","a","d","i","e","n","t">>)
    \o TagIf(Contains(latex, <<BS,"m","a","t","r","i","x">>) \/ Contains(latex, <<BS,"b","e","g","i","n","{","m","a","t","r","i","x","}">>),
             <<"m","a","t","r","i","x">>)

\* raw LaTeX after the cleanup: no code fence in it, no "$" and no
\* whitespace at either end
CleanedUp(latex) ==
    /\ ~Contains(latex, <<GRAVE, GRAVE, GRAVE>>)
    /\ latex # <<>> =>
           /\ latex[1] \notin {"$", " ", "\n", "\t"}
           /\ latex[Len(latex)] \notin {"$", " ", "\n", "\t"}

\* the text with its i-th formula label replaced by the LaTeX of the i-th
\* formula, from label number i on: the labels past the last formula and
\* every other part stay as they are
RECURSIVE ExpectedInserted(_, _, _)
ExpectedInserted(ps, fs, i) ==
    IF ps = <<>> THEN <<>>
    ELSE IF Head(ps).placeholder /\ i <= Len(fs)
    THEN <<"\n","$","$","\n">> \o fs[i].latex \o <<"\n","$","$","\n">>
         \o ExpectedInserted(Tail(ps), fs, i + 1)
    ELSE Head(ps).text \o ExpectedInserted(Tail(ps), fs, i)

\* the number of formula labels among the parts
RECURSIVE CountPlaceholders(_)
CountPlaceholders(ps) ==
    IF ps = <<>> THEN 0
    ELSE (IF Head(ps).placeholder THEN 1 ELSE 0) + CountPlaceholders(Tail(ps))

\* the entries a reader of the reply format takes from the blocks, in order
RECURSIVE ExpectedEntries(_)
ExpectedEntries(bs) ==
    IF bs = <<>> THEN <<>> ELSE Head(bs).entry \o ExpectedEntries(Tail(bs))

\* ------------------------------------------------------------------------
\* properties
\* ------------------------------------------------------------------------

\* C1: normalize_latex is idempotent: normalizing the output of
\* normalize_latex again gives the same string.
C1_Idempotent ==
    nPc = "twice" => nOut2 = nOut

\* C2: replace_markers_with_latex returns the input text with every
\* occurrence of each marker that has LaTeX replaced by its display block,
\* and nothing else changed (markers without LaTeX stay verbatim).
C2_ResolverContract ==
    rPc = "resolved" => rResult = ExpectedResolved(rText, rFormulas, 1)

\* C3: the markers issued by one scan are "##FORMULA_kkk##" for
\* k = 0..n-1 in discovery order, pairwise distinct, one per accepted
\* candidate; rejected and near-blank clusters take no sequence number.
C3_SequentialMarkers ==
    pc # "idle" =>
        /\ Len(formulas) = formula_idx
        /\ \A k \in 1..Len(formulas) :
              /\ formulas[k].marker = ExpectedMarker(k - 1)
              /\ formulas[k].index = k - 1
        /\ \A i, j \in 1..Len(formulas) :
              i # j => formulas[i].marker # formulas[j].marker
        /\ Positions(formulas) = AcceptedBefore(doc, page_num, ci)

C3_Witness ==
    /\ pc = "scan"
    /\ page_num <= Len(doc)
    /\ Len(formulas) >= 2
    /\ \E c \in 1..(ci - 1) :
          /\ ~DetectorRejects(doc[page_num].clusters[c].rect, doc[page_num].tables)
          /\ doc[page_num].clusters[c].colors < MinColors
    /\ \E c \in 1..(ci - 1) :
          DetectorRejects(doc[page_num].clusters[c].rect, doc[page_num].tables)
    /\ formulas[Len(formulas)].page_num = page_num
    /\ formulas[Len(formulas)].rect = doc[page_num].clusters[ci - 1].rect

\* C4: when the Detector accepted candidates, the converter kept every
\* marker and every candidate has LaTeX, the resolved text contains
\* "$$<latex>$$" for each candidate and none of the injected markers.
C4_RoundTrip ==
    ( /\ pc = "done"
      /\ vector_formulas # <<>>
      /\ dropped = 0
      /\ \A k \in 1..Len(vector_formulas) : Truthy(vector_formulas[k].latex) )
    => \A k \in 1..Len(vector_formulas) :
          /\ Contains(text_content,
                      <<"$", "$">> \o vector_formulas[k].latex \o <<"$", "$">>)
          /\ ~Contains(text_content, vector_formulas[k].marker)

\* C5: a page whose scan fails contributes no candidate and the scan goes
\* on: the candidates of all other pages are returned, and the Detector
\* does not raise.
C5_PageFailureSkipped ==
    (pc \in {"parse", "done"} /\ gate) =>
        /\ ~raised
        /\ \A k \in 1..Len(CandidatesOfScannablePages(doc, Len(doc))) :
              \E j \in 1..Len(vector_formulas) :
                 <<vector_formulas[j].page_num, vector_formulas[j].rect>>
                     = CandidatesOfScannablePages(doc, Len(doc))[k]

\* C6: a vision call that raises, times out or answers with nothing sets
\* the latex of that candidate to null; the other candidates are still
\* processed, and the list keeps its length and order.
C6_FailedExtractionIsolated ==
    /\ (pc = "convert" /\ conv_i > 1 /\ FailedReply(reply))
           => formulas[conv_i - 1].latex = None
    /\ (pc = "convert" /\ conv_i > 1 /\ CarriesX(reply))
           => formulas[conv_i - 1].latex = <<"x">>
    /\ pc = "convert" =>
           /\ Len(formulas) = formula_idx
           /\ \A k \in 1..Len(formulas) : formulas[k].marker = ExpectedMarker(k - 1)
           /\ Positions(formulas) = AcceptedBefore(doc, Len(doc) + 1, 1)
           /\ \A k \in conv_i..Len(formulas) : formulas[k].latex = None
    /\ (pc \in {"parse", "done"} /\ marked_pdf_path = "marked") =>
           /\ conv_i = Len(formulas) + 1
           /\ Len(vector_formulas) = formula_idx
           /\ \A k \in 1..Len(vector_formulas) :
                 vector_formulas[k].marker = ExpectedMarker(k - 1)
           /\ Positions(vector_formulas) = AcceptedBefore(doc, Len(doc) + 1, 1)

C6_Witness ==
    /\ pc = "convert"
    /\ conv_i >= 3
    /\ CarriesX(reply)
    /\ formulas[conv_i - 2].latex = None
    /\ formulas[conv_i - 1].latex = <<"x">>

\* C7: a failure in detection, injection, extraction or resolution does not
\* abort ingest_pdf, and the formulas detected before the failure are
\* carried into the resolved output.
C7_PartialResultsCarried ==
    pc = "done" =>
        \A k \in 1..Len(formulas) :
           \E j \in 1..Len(vector_formulas) :
              vector_formulas[j].marker = formulas[k].marker

\* C8: the number reported as replaced is the number of markers that were
\* substituted in the text; formulas without LaTeX and formulas whose
\* marker is not in the text are not among them.
C8_ReportedEqualsSubstituted ==
    (pc = "done" /\ vector_formulas # <<>>) =>
        /\ replaced = replaced_count
        /\ replaced = Substituted(convText, vector_formulas)

\* C9: a cluster that lies entirely inside a table of its page is neither
\* counted by has_vector_formulas nor marked by
\* create_marked_pdf_and_extract_formulas.
C9_InsideTableNeverCandidate ==
    pc # "idle" =>
        /\ \A pos \in GateCandidates(doc) :
              ~InsideATable(doc[pos[1]].clusters[pos[2]].rect, doc[pos[1]].tables)
        /\ \A k \in 1..Len(formulas) :
              ~InsideATable(formulas[k].rect, doc[formulas[k].page_num].tables)

C9_Witness ==
    /\ pc = "scan"
    /\ page_num <= Len(doc)
    /\ ci > 1
    /\ formulas # <<>>
    /\ InsideATable(doc[page_num].clusters[ci - 1].rect, doc[page_num].tables)
    /\ ~BandFilter(doc[page_num].clusters[ci - 1].rect)
    /\ ~SizeFilter(doc[page_num].clusters[ci - 1].rect)
    /\ doc[page_num].clusters[ci - 1].colors >= MinColors

\* C10: a cluster with y1 < 70 or y0 > page height - 70 is never a
\* candidate of the gate or of the scan, whatever its size and table
\* overlap.
C10_BandNeverCandidate ==
    pc # "idle" =>
        /\ \A pos \in GateCandidates(doc) :
              ~InHeaderFooterBand(doc[pos[1]].clusters[pos[2]].rect)
        /\ \A k \in 1..Len(formulas) : ~InHeaderFooterBand(formulas[k].rect)

C10_Witness ==
    /\ pc = "scan"
    /\ page_num <= Len(doc)
    /\ ci > 1
    /\ formulas # <<>>
    /\ InHeaderFooterBand(doc[page_num].clusters[ci - 1].rect)
    /\ ~TableFilter(doc[page_num].clusters[ci - 1].rect, doc[page_num].tables)
    /\ ~SizeFilter(doc[page_num].clusters[ci - 1].rect)
    /\ doc[page_num].clusters[ci - 1].colors >= MinColors

\* C11: every region the scan returns and stamps a marker for has
\* width >= 30, height >= 10 and a width of at most 90% of the width of its
\* page.
C11_CandidateSizeBounds ==
    pc # "idle" =>
        \A k \in 1..Len(formulas) :
           /\ formulas[k].rect.x1 - formulas[k].rect.x0 >= 30
           /\ formulas[k].rect.y1 - formulas[k].rect.y0 >= 10
           /\ 10 * (formulas[k].rect.x1 - formulas[k].rect.x0) <= 9 * PageWidth

\* C12: the final markdown of every ingestion, the marker method included,
\* is the file markdown/<stem of the source PDF>.md, where the later step
\* that appends by source stem finds it.
C12_MarkdownKeyedBySourceStem ==
    pc \in {"done", "described"} =>
        /\ MarkdownDir \o <<"/">> \o PathStem(pdf_path) \o <<".","m","d">>
               \in DOMAIN markdown_files
        /\ markdown_files[MarkdownDir \o <<"/">> \o PathStem(pdf_path)
                          \o <<".","m","d">>].text = text_content

\* C13: when the scan ends with no candidate, ingest_pdf keeps the source
\* path and an empty list, no marked copy is on disk, no vision call was
\* made, and the converter runs on the source document with marker
\* resolution off.
C13_NoCandidateFallback ==
    (pc \in {"parse", "done", "described"} /\ gate /\ ~raised /\ formulas = <<>>) =>
        /\ marked_pdf_path = "source"
        /\ vector_formulas = <<>>
        /\ DOMAIN disk = {pdf_path}
        /\ vision_calls = 0
        /\ pc \in {"done", "described"} =>
               /\ parsed_path = pdf_path
               /\ ~use_marker_method
               /\ text_content = convText
               /\ replaced_count = 0

C13_Witness ==
    /\ pc = "done"
    /\ gate
    /\ ~raised
    /\ formulas = <<>>
    /\ \E c \in 1..Len(doc[1].clusters) :
          /\ ~DetectorRejects(doc[1].clusters[c].rect, doc[1].tables)
          /\ doc[1].clusters[c].colors < MinColors

\* C14: the file at the source path is never changed by the marker
\* injection, whether the scan returns candidates, returns none or raises;
\* when markers were inserted, the marked document is saved at another path.
C14_SourceNeverModified ==
    pc # "idle" =>
        /\ pdf_path \in DOMAIN disk
        /\ disk[pdf_path] = <<>>
        /\ (pc = "convert" \/ marked_pdf_path = "marked") =>
               \E q \in DOMAIN disk :
                  /\ q # pdf_path
                  /\ disk[q] # <<>>
                  /\ \A k \in 1..Len(formulas) : disk[q][k] = ExpectedMarker(k - 1)

C14_Witness ==
    /\ pc = "convert"
    /\ formulas # <<>>
    /\ SubSeq(pdf_path, 1, 3) = <<"/", "t", "/">>
    /\ Cardinality(DOMAIN disk) = 2

\* C15: for all single alphanumeric characters a and b,
\* normalize_latex("a/b") is "\frac{a}{b}".
C15_SingleCharFraction ==
    ( /\ cPc = "returned"
      /\ cFn = "normalize_latex"
      /\ Len(cIn) = 3
      /\ cIn[1] \in Lower \cup Upper \cup Digits
      /\ cIn[2] = "/"
      /\ cIn[3] \in Lower \cup Upper \cup Digits )
    => cOut = <<"\\", "f", "r", "a", "c", "{", cIn[1], "}", "{", cIn[3], "}">>

C15_Witness ==
    /\ cFn = "normalize_latex"
    /\ cPc = "returned"
    /\ cIn = <<"7", "/", "n">>
    /\ cOut = <<"\\", "f", "r", "a", "c", "{", "7", "}", "{", "n", "}">>

C17_GreekSubstitution ==
    (cPc = "returned" /\ cFn = "normalize_latex") =>
        \A k \in 1..Len(greek_letters) :
           /\ cIn = greek_letters[k] => cOut = <<"\\">> \o greek_letters[k]
           /\ cIn = <<"\\">> \o greek_letters[k] => cOut = cIn

C17_Witness ==
    /\ cFn = "normalize_latex"
    /\ cPc = "returned"
    /\ cIn = <<"u", "p", "s", "i", "l", "o", "n">>
    /\ cOut = <<"\\", "u", "p", "s", "i", "l", "o", "n">>

C19_RawLatexCleanedUp ==
    /\ (cFn = "convert_formula_image_to_latex" /\ cPc = "returned" /\ cOut # None)
           => CleanedUp(cOut)
    /\ (cFn = "extract_formula_from_image" /\ cPc = "returned" /\ cOut.latex # None)
           => CleanedUp(cOut.latex)
    /\ (cFn = "extract_formulas_from_page" /\ cPc = "returned")
           => \A k \in 1..Len(cOut) : CleanedUp(cOut[k].latex)

\* C20: extract_formulas_from_page returns [] for the NO_FORMULAS sentinel
\* and for any exception; for every other reply it returns one entry per
\* block that runs from FORMULA_START to a FORMULA_END and has a LATEX: value,
\* in order of appearance, with the LOCATION and LATEX values of the block;
\* blocks without a LATEX: value or without FORMULA_END give no entry.
C20_PageReplyParsing ==
    (cFn = "extract_formulas_from_page" /\ cPc = "returned") =>
        IF cIn.kind # "text" \/ cIn.content = <<"N","O","_","F","O","R","M","U","L","A","S">>
        THEN cOut = <<>>
        ELSE /\ Len(cOut) = Len(ExpectedEntries(cIn.blocks))
             /\ \A k \in 1..Len(cOut) :
                   /\ cOut[k].location = ExpectedEntries(cIn.blocks)[k].location
                   /\ cOut[k].latex = ExpectedEntries(cIn.blocks)[k].latex

\* C21: insert_formulas_into_markdown replaces the formula labels in order
\* of appearance, the i-th label by the LaTeX of the i-th formula; labels
\* past the last formula stay verbatim, formulas past the last label are
\* unused, and the text outside the labels is unchanged.
C21_PlaceholdersInOrder ==
    (cFn = "insert_formulas_into_markdown" /\ cPc = "returned") =>
        cOut = ExpectedInserted(cIn.parts, cIn.formulas, 1)

C21_Witness ==
    /\ cFn = "insert_formulas_into_markdown"
    /\ cPc = "returned"
    /\ Len(cIn.formulas) = 2
    /\ CountPlaceholders(cIn.parts) = 3
    /\ cIn.formulas[1].latex # cIn.formulas[2].latex
    /\ cOut = <<"\n","$","$","\n">> \o cIn.formulas[1].latex \o <<"\n","$","$","\n">>
              \o <<"\n","$","$","\n">> \o cIn.formulas[2].latex \o <<"\n","$","$","\n">>
              \o cIn.parts[3].text

\* C22: after clear_collection returns the persistent collection holds no
\* document, whatever vector-store calls came before in this or an earlier
\* process, also when clear_collection is the first vector-store call of
\* the process.
C22_ClearLeavesNoDocument ==
    sOp = "clear_collection" => chroma = {}

\* C23: the table filter rejects a cluster exactly when its overlap with
\* one single table is more than 50% of the cluster's area: a cluster that
\* passes the other filters is counted by the gate, and marked by the scan,
\* if and only if no single table covers more than half of it, also when it
\* meets several tables.
C23_TableFilterPerTable ==
    pc \notin {"idle", "ingest"} =>
        /\ \A p \in 1..Min(SamplePages, Len(doc)) : \A c \in 1..Len(doc[p].clusters) :
              (/\ ~BandFilter(doc[p].clusters[c].rect)
               /\ Width(doc[p].clusters[c].rect) > MinWidth
               /\ Height(doc[p].clusters[c].rect) > MinHeight
               /\ 10 * Width(doc[p].clusters[c].rect) < 9 * PageWidth)
              => (<<p, c>> \in GateCandidates(doc)
                    <=> ~OverHalfInOneTable(doc[p].clusters[c].rect, doc[p].tables))
        /\ (/\ pc = "scan"
            /\ page_num <= Len(doc)
            /\ ci > 1
            /\ ~BandFilter(doc[page_num].clusters[ci - 1].rect)
            /\ ~SizeFilter(doc[page_num].clusters[ci - 1].rect)
            /\ doc[page_num].clusters[ci - 1].render = "ok"
            /\ doc[page_num].clusters[ci - 1].colors >= MinColors)
           => ((\E k \in 1..Len(formulas) :
                   /\ formulas[k].page_num = page_num
                   /\ formulas[k].rect = doc[page_num].clusters[ci - 1].rect)
                 <=> ~OverHalfInOneTable(doc[page_num].clusters[ci - 1].rect,
                                         doc[page_num].tables))

\* C24: the gate agrees with the detector: has_vector_formulas returns True
\* for every document on which create_marked_pdf_and_extract_formulas would
\* accept at least one candidate, so ingest_pdf never skips the marker
\* method for a document with a detectable formula on any page.
C24_GateAgreesWithDetector ==
    (pc \notin {"idle", "ingest"} /\ DetectorWouldAccept(doc)) => gate

\* C25: the output of normalize_latex is whitespace-normal for every input:
\* no whitespace at its start or end and no run of two or more whitespace
\* characters; no pass after the whitespace collapse brings a run back.
C25_OutputWhitespaceNormal ==
    nPc \in {"once", "twice"} => WhitespaceNormal(nOut)

\* C26: the single-character fraction rule rewrites "a/b" only when a and b
\* are complete one-character tokens: a numerator or denominator that is
\* part of a longer alphanumeric run is never split off, so "10/2" and
\* "1/20" get no fraction of one of their digits.
C26_NoSplitOfLongRuns ==
    (cFn = "normalize_latex" /\ cPc = "returned" /\ IsLongFraction(cIn))
        => ~Contains(cOut, <<BS,"f","r","a","c">>)

\* C27: the result of replace_markers_with_latex does not depend on the
\* order of the formulas list: every permutation of the same formulas gives
\* the same text, so LaTeX inserted for one marker is never rewritten by
\* the substitution of another marker.
C27_ResolverOrderIndependent ==
    rPc = "resolved" =>
        \A gs \in Reorderings(rFormulas) :
            replace_markers_with_latex(rText, gs).result = rResult

\* C28: two ingestions of two different source documents, one after the
\* other or at the same time, never write the same marked-document path or
\* the same formula-image path, and neither reads a marked copy or an image
\* the other has written.
C28_ArtifactsPerDocument ==
    tPc # <<>> =>
        /\ \A w1, w2 \in tWrites : w1[1] = w2[1] => w1[2] = w2[2]
        /\ \A i \in 1..2 : tRead[i] \subseteq {i}

\* C29: every formula entry the extraction adapters return has usable LaTeX:
\* each entry of extract_formulas_from_page has a non-empty latex string
\* after cleanup, and convert_formula_image_to_latex returns None or a
\* string that is neither empty nor whitespace only.
C29_UsableLatex ==
    /\ (cFn = "convert_formula_image_to_latex" /\ cPc = "returned" /\ cOut # None)
           => strip(cOut) # <<>>
    /\ (cFn = "extract_formulas_from_page" /\ cPc = "returned")
           => \A k \in 1..Len(cOut) : cOut[k].latex # <<>>

\* C30: split_text terminates for every text, every positive chunk_size and
\* every overlap with 0 <= overlap < chunk_size: start grows on every
\* iteration of the loop, and the call returns.
C30_SplitTerminates ==
    /\ [][SplitIterate => xStart' > xStart]_vars
    /\ <>(xPc = "returned")

====
